---------------------------- MODULE Spec2Model ----------------------------
(***************************************************************************)
(* A model of the hashlife repository: the quadtree cell (src/src/cell.rs), *)
(* the rule table (src/src/rules.rs), the world facade (src/src/world.rs)   *)
(* and the hashed cell buffer (src/src/main.rs).                            *)
(*                                                                          *)
(* A Cell is a record [nw, ne, sw, se] of machine words.  A word is a       *)
(* natural number below 2^WORD_SIZE_BITS; a 4x4 bitmap ("rule") is a u16.   *)
(***************************************************************************)
EXTENDS Integers, Sequences, FiniteSets, TLC

VARIABLES
    rule,       \* World.rules, kept as the RuleSet.rule word it is computed from
    root,       \* World.root
    buf,        \* World.buf
    depth,      \* World.depth
    checks,     \* TRUE: the build checks integer overflow (debug); FALSE: it wraps (release)
    status,     \* "ok", or how the program ended: "panic", "diverge"
    op,         \* the last operation that ran
    arg,        \* its argument
    out,        \* the value it returned
    sets,       \* the coordinates passed to set_bit so far
    steps,      \* how many operations ran since the world was set up
    cellbuf,    \* the CellBuf of src/src/main.rs: [root, buf, size]
    cam,        \* the Camera of src/src/camera.rs: [w, h, cb, cp, fb]
    term        \* the terminal driver of src/examples/ui.rs: [pc, raw, code, cols, rows, event, lines]

vars == << rule, root, buf, depth, checks, status, op, arg, out, sets, steps, cellbuf, cam, term >>

\* No camera built, no terminal driver started
NoCamera == [w |-> 0, h |-> 0, cb |-> << >>, cp |-> << >>, fb |-> << >>,
             x |-> 0, y |-> 0, scale |-> 0]

NoTerm == [pc |-> "none", raw |-> FALSE, code |-> "none", cols |-> 0, rows |-> 0,
           event |-> "None", lines |-> 0]

-----------------------------------------------------------------------------
(* Machine words and bit operations *)

\* The width of a machine word (usize) in the model.  The code's word is 32
\* or 64 bits wide; the model needs one tag bit above the 16 bits of a rule.
WORD_SIZE_BITS == 17

Pow2(n) == 2 ^ n

U16 == Pow2(16)

\* a & b, bit by bit
RECURSIVE AndBits(_, _)
AndBits(a, b) ==
    IF a = 0 \/ b = 0 THEN 0
    ELSE (a % 2) * (b % 2) + 2 * AndBits(a \div 2, b \div 2)

\* a & b for two hexadecimal digits, tabulated
AndHex == [a \in 0 .. 15 |-> [b \in 0 .. 15 |-> AndBits(a, b)]]

\* a & b, digit by digit
RECURSIVE And(_, _)
And(a, b) ==
    IF a = 0 \/ b = 0 THEN 0
    ELSE AndHex[a % 16][b % 16] + 16 * And(a \div 16, b \div 16)

Or(a, b) == a + b - And(a, b)

\* x << n on a u16: the bits shifted out are lost
Shl16(x, n) == (x * Pow2(n)) % U16

Shr(x, n) == x \div Pow2(n)

\* x as u16
AsU16(x) == x % U16

LEAF_MASK == Pow2(WORD_SIZE_BITS - 1)

\* x & !LEAF_MASK
ClearMask(x) == x % LEAF_MASK

-----------------------------------------------------------------------------
(* Cell *)

Cell_new(nw, ne, sw, se) == [nw |-> nw, ne |-> ne, sw |-> sw, se |-> se]

uninit == Cell_new(0, 0, 0, 0)

void == uninit

leaf(nw, ne, sw, se) == Cell_new(Or(nw, LEAF_MASK), ne, sw, se)

leaf_uninit == leaf(0, 0, 0, 0)

is_void(c) == c = void

is_leaf(c) == And(c.nw, LEAF_MASK) = LEAF_MASK

\* buf is a Rust Vec, indexed from 0: At(b, i) is b[i]
At(b, i) == b[i + 1]

is_16(c, b) ==
    /\ ~is_leaf(c)
    /\ \/ is_leaf(At(b, c.nw))
       \/ is_leaf(At(b, c.ne))
       \/ is_leaf(At(b, c.sw))
       \/ is_leaf(At(b, c.se))

unmask_leaf(c) == [c EXCEPT !.nw = ClearMask(c.nw)]

mask_leaf(c) == [c EXCEPT !.nw = And(c.nw, LEAF_MASK)]

-----------------------------------------------------------------------------
(* RuleSet *)

NBHD_MASK == 1879   \* 0b0000_0111_0101_0111

CELL_MASK == 32     \* 0b0000_0000_0010_0000

RECURSIVE count_bits(_)
count_bits(x) == IF x = 0 THEN 0 ELSE 1 + count_bits(And(x, x - 1))

births(rs) == Shr(rs, 16) % U16

survivals(rs) == rs % U16

\* A next that counts the cell itself among its neighbours
next_shift_self(rs, cell, shift) ==
    LET nbhd_mask == Shl16(NBHD_MASK + CELL_MASK, shift)
        cell_mask == Shl16(CELL_MASK, shift)
        dead == And(cell, cell_mask) = 0
        num_neighbors == Pow2(count_bits(And(cell, nbhd_mask)))
    IN  IF dead
        THEN IF And(AsU16(num_neighbors), Shr(rs, 16) % U16) = AsU16(num_neighbors)
             THEN cell_mask ELSE 0
        ELSE IF And(AsU16(num_neighbors), rs % U16) = AsU16(num_neighbors)
             THEN cell_mask ELSE 0

\* The bit RuleSet::next writes for one of its four shifts
next_shift(rs, cell, shift) ==
    LET nbhd_mask == Shl16(NBHD_MASK, shift)
        cell_mask == Shl16(CELL_MASK, shift)
        dead == And(cell, cell_mask) = 0
        num_neighbors == Pow2(count_bits(And(cell, nbhd_mask)))
    IN  IF dead
        THEN IF And(AsU16(num_neighbors), births(rs)) = AsU16(num_neighbors)
             THEN cell_mask ELSE 0
        ELSE IF And(AsU16(num_neighbors), survivals(rs)) = AsU16(num_neighbors)
             THEN cell_mask ELSE 0

\* A next that writes the mask of the neighbourhood where the cell lives on
RuleSet_next_nbhd(rs, cell) ==
    Or(Or(Or(next_shift(rs, cell, 0), next_shift(rs, cell, 1)),
          next_shift(rs, cell, 4)),
       IF next_shift(rs, cell, 5) = 0 THEN 0 ELSE Shl16(NBHD_MASK, 5))

\* RuleSet::next
RuleSet_next(rs, cell) ==
    Or(Or(Or(next_shift(rs, cell, 0), next_shift(rs, cell, 1)),
          next_shift(rs, cell, 4)), next_shift(rs, cell, 5))

compute_rules(rs) == [cell \in 0 .. (U16 - 1) |-> RuleSet_next(rs, cell)]

\* A digit character's value (char::to_digit(10)), -1 for any other character
to_digit(ch) ==
    CASE ch = "0" -> 0 [] ch = "1" -> 1 [] ch = "2" -> 2 [] ch = "3" -> 3
      [] ch = "4" -> 4 [] ch = "5" -> 5 [] ch = "6" -> 6 [] ch = "7" -> 7
      [] ch = "8" -> 8 [] ch = "9" -> 9 [] OTHER -> -1

\* impl FromStr for RuleSet: st is [state, rule, err]; s a sequence of characters
RECURSIVE from_str_loop(_, _, _)
from_str_loop(s, i, st) ==
    IF i > Len(s) \/ st.err THEN st
    ELSE LET c == s[i] IN
         IF c \in {"b", "B"} THEN from_str_loop(s, i + 1, [st EXCEPT !.state = "Birth"])
         ELSE IF c \in {"s", "S"} THEN from_str_loop(s, i + 1, [st EXCEPT !.state = "Survival"])
         ELSE LET n == to_digit(c) IN
              IF n < 0 \/ n > 8 THEN [st EXCEPT !.err = TRUE]
              ELSE IF st.state = "Survival"
                   THEN from_str_loop(s, i + 1, [st EXCEPT !.rule = Or(st.rule, Pow2(n))])
                   ELSE from_str_loop(s, i + 1, [st EXCEPT !.rule = Or(st.rule, Pow2(n + 16))])

from_str(s) == from_str_loop(s, 1, [state |-> "Birth", rule |-> 0, err |-> FALSE])

LIFE_RULES == << "b", "3", "s", "2", "3" >>


-----------------------------------------------------------------------------
(* Cell::compute_leaf_res, compute_node_res16, compute_node_res, compute_res *)

\* Returns [res, self]: the rule returned and the cell as the call leaves it
compute_leaf_res(self, next) ==
    LET s   == unmask_leaf(self)
        nw  == AsU16(s.nw)
        ne  == AsU16(s.ne)
        sw  == AsU16(s.sw)
        se  == AsU16(s.se)
        t00 == And(nw, 1632)                                   \* 0b0000_0110_0110_0000
        t01 == Or(Shl16(And(nw, 272), 2), Shr(And(ne, 2176), 2))
        t02 == And(ne, 1632)
        t10 == Or(Shl16(And(nw, 6), 8), Shr(And(sw, 24576), 8))
        t11 == Or(Or(Shl16(And(nw, 1), 10), Shl16(And(ne, 8), 6)),
                  Or(Shr(And(sw, 4096), 6), Shr(And(se, 32768), 10)))
        t12 == Or(Shl16(And(ne, 6), 8), Shr(And(se, 24576), 8))
        t20 == And(sw, 1632)
        t21 == Or(Shl16(And(sw, 272), 2), Shr(And(se, 2176), 2))
        t22 == And(se, 1632)
        tl  == Or(Or(Shl16(t00, 5), Shl16(t01, 3)), Or(Shr(t10, 3), Shr(t11, 5)))
        tr  == Or(Or(Shl16(t01, 5), Shl16(t02, 3)), Or(Shr(t11, 3), Shr(t12, 5)))
        bl  == Or(Or(Shl16(t10, 5), Shl16(t11, 3)), Or(Shr(t20, 3), Shr(t21, 5)))
        br  == Or(Or(Shl16(t11, 5), Shl16(t12, 3)), Or(Shr(t21, 3), Shr(t22, 5)))
        r   == Or(Or(Shl16(next[tl], 5), Shl16(next[tr], 3)),
                  Or(Shr(next[bl], 3), Shr(next[br], 5)))
    IN  [res |-> r, self |-> mask_leaf(s)]

h_center(w, e) == Cell_new(w.ne, e.nw, w.se, e.sw)

v_center(n, s) == Cell_new(n.sw, n.se, s.nw, s.ne)

center(c, b) ==
    Cell_new(At(b, c.nw).se, At(b, c.ne).sw, At(b, c.sw).ne, At(b, c.se).nw)

h_center8(w, e) ==
    Cell_new(Or(AsU16(w.ne), LEAF_MASK), AsU16(ClearMask(e.nw)), AsU16(w.se), AsU16(e.sw))

v_center8(n, s) ==
    Cell_new(Or(AsU16(n.sw), LEAF_MASK), AsU16(n.se), AsU16(ClearMask(s.nw)), AsU16(s.ne))

center16(cell, b) ==
    Cell_new(Or(AsU16(At(b, cell.nw).se), LEAF_MASK),
             AsU16(At(b, cell.ne).sw),
             AsU16(At(b, cell.sw).ne),
             AsU16(ClearMask(At(b, cell.se).nw)))

RECURSIVE compute_res(_, _, _)
RECURSIVE compute_node_res16(_, _, _)
RECURSIVE compute_node_res(_, _, _)

\* Each returns [res, buf]: the value returned and the buffer as the call
\* leaves it.  res is an index for a node and a rule for a leaf.
compute_res(self, next, b) ==
    IF is_void(self) THEN [res |-> 0, buf |-> b]
    ELSE IF is_leaf(self) THEN [res |-> compute_leaf_res(self, next).res, buf |-> b]
    ELSE IF is_16(self, b)
         THEN LET r == compute_node_res16(self, next, b)
              IN  [res |-> Len(r.buf), buf |-> Append(r.buf, r.res)]
         ELSE LET r == compute_node_res(self, next, b)
              IN  [res |-> Len(r.buf), buf |-> Append(r.buf, r.res)]

\* res is the Cell returned
compute_node_res16(self, next, b) ==
    LET nw  == At(b, self.nw)
        ne  == At(b, self.ne)
        sw  == At(b, self.sw)
        se  == At(b, self.se)
        n   == h_center8(nw, ne)
        s   == h_center8(sw, se)
        e   == v_center8(ne, se)
        w   == v_center8(nw, sw)
        c   == center16(self, b)
        r00 == compute_res(nw, next, b)
        r01 == compute_res(n, next, r00.buf)
        r02 == compute_res(ne, next, r01.buf)
        r10 == compute_res(w, next, r02.buf)
        r11 == compute_res(c, next, r10.buf)
        r12 == compute_res(e, next, r11.buf)
        r20 == compute_res(sw, next, r12.buf)
        r21 == compute_res(s, next, r20.buf)
        r22 == compute_res(se, next, r21.buf)
        n00 == AsU16(r00.res)
        n01 == AsU16(r01.res)
        n02 == AsU16(r02.res)
        n10 == AsU16(r10.res)
        n11 == AsU16(r11.res)
        n12 == AsU16(r12.res)
        n20 == AsU16(r20.res)
        n21 == AsU16(r21.res)
        n22 == AsU16(r22.res)
        tl  == compute_res(leaf(n00, n01, n10, n11), next, r22.buf)
        tr  == compute_res(leaf(n01, n02, n11, n12), next, tl.buf)
        bl  == compute_res(leaf(n10, n11, n20, n21), next, tr.buf)
        br  == compute_res(leaf(n11, n12, n21, n22), next, bl.buf)
    IN  [res |-> leaf(AsU16(tl.res), AsU16(tr.res), AsU16(bl.res), AsU16(br.res)),
         buf |-> br.buf]

compute_node_res(self, next, b) ==
    LET nw  == At(b, self.nw)
        ne  == At(b, self.ne)
        sw  == At(b, self.sw)
        se  == At(b, self.se)
        n   == h_center(nw, ne)
        s   == h_center(sw, se)
        e   == v_center(ne, se)
        w   == v_center(nw, sw)
        c   == center(self, b)
        n00 == compute_res(nw, next, b)
        n01 == compute_res(n, next, n00.buf)
        n02 == compute_res(ne, next, n01.buf)
        n10 == compute_res(w, next, n02.buf)
        n11 == compute_res(c, next, n10.buf)
        n12 == compute_res(e, next, n11.buf)
        n20 == compute_res(sw, next, n12.buf)
        n21 == compute_res(s, next, n20.buf)
        n22 == compute_res(se, next, n21.buf)
        tl  == compute_res(Cell_new(n00.res, n01.res, n10.res, n11.res), next, n22.buf)
        tr  == compute_res(Cell_new(n01.res, n02.res, n11.res, n12.res), next, tl.buf)
        bl  == compute_res(Cell_new(n10.res, n11.res, n20.res, n21.res), next, tr.buf)
        br  == compute_res(Cell_new(n11.res, n12.res, n21.res, n22.res), next, bl.buf)
    IN  [res |-> Cell_new(tl.res, tr.res, bl.res, br.res), buf |-> br.buf]

\* Cell::next
Cell_next(self, next, b) == compute_res(self, next, b)

-----------------------------------------------------------------------------
(* The tree walk: draw_rule, draw_leaf, draw_cell of src/src/cell.rs.  Each   *)
(* returns the set of pixels <<x, y>> it draws, x to the right and y down.    *)

draw_rule(r, dx, dy) ==
    { << dx + (i % 4), dy + (i \div 4) >> : i \in { j \in 0 .. 15 : And(r, Pow2(15 - j)) # 0 } }

draw_leaf(cell, dx, dy) ==
    LET c == unmask_leaf(cell)
    IN  draw_rule(AsU16(c.nw), dx, dy) \cup draw_rule(AsU16(c.ne), dx + 4, dy)
        \cup draw_rule(AsU16(c.sw), dx, dy + 4) \cup draw_rule(AsU16(c.se), dx + 4, dy + 4)

\* A void cell is the empty cell of any size (cell.rs, Cell::void): it draws
\* nothing.
RECURSIVE draw_cell(_, _, _, _, _)
draw_cell(cell, cells, d, dx, dy) ==
    IF is_leaf(cell) THEN draw_leaf(cell, dx, dy)
    ELSE IF is_void(cell) \/ d = 0 THEN {}
    ELSE LET w == Pow2(2 + d)
         IN  draw_cell(At(cells, cell.nw), cells, d - 1, dx, dy)
             \cup draw_cell(At(cells, cell.ne), cells, d - 1, dx + w, dy)
             \cup draw_cell(At(cells, cell.sw), cells, d - 1, dx, dy + w)
             \cup draw_cell(At(cells, cell.se), cells, d - 1, dx + w, dy + w)

-----------------------------------------------------------------------------
(* The standard semantics of a rule: a cell-by-cell simulation on a set of   *)
(* live pixels, the yardstick the results are compared with.                 *)

BirthSet(rs) == { n \in 0 .. 8 : And(births(rs), Pow2(n)) # 0 }

SurvivalSet(rs) == { n \in 0 .. 8 : And(survivals(rs), Pow2(n)) # 0 }

Neighbours(p) ==
    { << p[1] + dx, p[2] + dy >> : dx \in -1 .. 1, dy \in -1 .. 1 } \ { p }

\* One generation, read off the square [lo, hi] x [lo, hi]
Generation(S, lo, hi, rs) ==
    { p \in (lo .. hi) \X (lo .. hi) :
        LET n == Cardinality(Neighbours(p) \cap S)
        IN  IF p \in S THEN n \in SurvivalSet(rs) ELSE n \in BirthSet(rs) }

\* g generations of the square [lo, hi]^2, which shrinks by one cell on each
\* side per generation: the cells that the square alone determines
RECURSIVE Simulate(_, _, _, _, _)
Simulate(S, lo, hi, g, rs) ==
    IF g = 0 THEN S \cap ((lo .. hi) \X (lo .. hi))
    ELSE Simulate(Generation(S, lo + 1, hi - 1, rs), lo + 1, hi - 1, g - 1, rs)

-----------------------------------------------------------------------------
(* Inputs *)

\* 4x4 bitmaps: the quadrants of the leaves src/src/lib.rs builds
\* (build_8_cell, build_8_glider, build_8_cell_checker, build_8_cell_full)
QuadPatterns == << 0, 51, 3716, 23130, 8560, 65535, 204 >>

\* How many of them the leaves are drawn from
NQuads == 4

Quads == { QuadPatterns[i] : i \in 1 .. NQuads }

LeafInputs == { leaf(a, b, c, d) : a \in Quads, b \in Quads, c \in Quads, d \in Quads }

RuleStrings == { LIFE_RULES, << "b", "3", "6", "s", "2", "3" >> }

RuleSets == { from_str(s).rule : s \in RuleStrings }

NoCellBuf == [root |-> 0, buf |-> << >>, size |-> 0]

-----------------------------------------------------------------------------
(* SpecLeaf: the result of a leaf *)

InitLeaf ==
    /\ rule \in RuleSets
    /\ \E l \in LeafInputs : buf = << l >>
    /\ root = 0
    /\ depth = 0
    /\ checks = TRUE
    /\ status = "ok"
    /\ op = "new"
    /\ arg = 0
    /\ out = 0
    /\ sets = {}
    /\ steps = 0
    /\ cellbuf = NoCellBuf
    /\ cam = NoCamera
    /\ term = NoTerm

\* buf[root].compute_leaf_res(&rules)
LeafRes ==
    /\ op = "new"
    /\ is_leaf(At(buf, root))
    /\ LET r == compute_leaf_res(At(buf, root), compute_rules(rule))
       IN  /\ out' = r.res
           /\ buf' = << r.self >>
    /\ arg' = At(buf, root)
    /\ op' = "compute_leaf_res"
    /\ UNCHANGED << rule, root, depth, checks, status, sets, steps, cellbuf, cam, term >>

NextLeaf == LeafRes

SpecLeaf == InitLeaf /\ [][NextLeaf]_vars

\* C1: for any level-3 leaf, the 4x4 returned by compute_leaf_res is the
\* central 4x4 of the 8x8 grid after 2 generations of the rule.
C1_LeafResultTwoGenerations ==
    op = "compute_leaf_res" =>
        draw_rule(out, 2, 2) = Simulate(draw_leaf(arg, 0, 0), 0, 7, 2, rule)

\* What the code returns instead: the central 4x4 after 1 generation
LeafResultOneGeneration ==
    op = "compute_leaf_res" =>
        draw_rule(out, 2, 2) = Generation(draw_leaf(arg, 0, 0), 2, 5, rule)

-----------------------------------------------------------------------------
(* World: a world is [root, buf, depth, status] *)

U8 == Pow2(8)

Pop(b) == SubSeq(b, 1, Len(b) - 1)

Last(b) == b[Len(b)]

\* World::new, after the rule string has parsed
World_new(d) == [root |-> 1, buf |-> << void, void >>, depth |-> d, status |-> "ok"]

\* A grow that puts each quadrant in the outer corner of its new child
Cell_grow_outer(self, b) ==
    LET mask == IF is_leaf(self) THEN LEAF_MASK ELSE 0
        nw == Cell_new(Or(ClearMask(self.nw), mask), 0, 0, 0)
        ne == Cell_new(mask, self.ne, 0, 0)
        sw == Cell_new(mask, 0, self.sw, 0)
        se == Cell_new(mask, 0, 0, self.se)
        n  == Len(b)
    IN  [res |-> Cell_new(n, n + 1, n + 2, n + 3), buf |-> b \o << nw, ne, sw, se >>]

\* Cell::grow: returns [res, buf], the new root cell and the buffer with its
\* four children pushed
Cell_grow(self, b) ==
    LET mask == IF is_leaf(self) THEN LEAF_MASK ELSE 0
        nw == Cell_new(mask, 0, 0, ClearMask(self.nw))
        ne == Cell_new(mask, 0, self.ne, 0)
        sw == Cell_new(mask, self.sw, 0, 0)
        se == Cell_new(Or(self.se, mask), 0, 0, 0)
        n  == Len(b)
    IN  [res |-> Cell_new(n, n + 1, n + 2, n + 3), buf |-> b \o << nw, ne, sw, se >>]

\* A grow of one level that leaves root at the index it had
World_grow_stale(w, k, chk) ==
    IF k = 0 \/ Len(w.buf) = 0 THEN w
    ELSE LET g == Cell_grow(Last(w.buf), Pop(w.buf))
         IN  [w EXCEPT !.buf = Append(g.buf, g.res), !.depth = (w.depth + 1) % U8]

\* World::grow.  chk: the build checks arithmetic overflow
RECURSIVE World_grow(_, _, _)
World_grow(w, k, chk) ==
    IF k = 0 THEN w
    ELSE IF Len(w.buf) = 0 THEN [w EXCEPT !.status = "panic"]
    ELSE LET g  == Cell_grow(Last(w.buf), Pop(w.buf))
             w1 == [w EXCEPT !.buf = Append(g.buf, g.res), !.root = Len(g.buf)]
         IN  IF w.depth + 1 >= U8
             THEN IF chk THEN [w1 EXCEPT !.status = "panic"]
                  ELSE World_grow([w1 EXCEPT !.depth = (w.depth + 1) % U8], k - 1, chk)
             ELSE World_grow([w1 EXCEPT !.depth = w.depth + 1], k - 1, chk)

\* World::next
World_next(w, rules, chk) ==
    IF Len(w.buf) = 0 THEN [w EXCEPT !.status = "panic"]
    ELSE LET r  == Cell_next(Last(w.buf), rules, Pop(w.buf))
             w1 == [w EXCEPT !.buf = r.buf, !.root = r.res]
         IN  IF w.depth = 0
             THEN IF chk THEN [w1 EXCEPT !.status = "panic"]
                  ELSE World_grow([w1 EXCEPT !.depth = U8 - 1], 1, chk)
             ELSE World_grow([w1 EXCEPT !.depth = w.depth - 1], 1, chk)

\* setup_world of examples/ui.rs: a leaf, under d nodes whose four children
\* are each the node below
RECURSIVE setup_chain(_, _, _)
setup_chain(b, n, i) ==
    IF i = 0 THEN b
    ELSE setup_chain(Append(b, Cell_new(n - 1, n - 1, n - 1, n - 1)), n + 1, i - 1)

setup_world(l, d) ==
    LET b == Append(Pop(World_new(0).buf), l)
        c == setup_chain(b, Len(b), d)
    IN  [root |-> Len(c) - 1, buf |-> c, depth |-> d, status |-> "ok"]

\* build_cell of src/src/lib.rs: returns [res, cells], the index of the new
\* root and the buffer
build_cell(nw, ne, sw, se, cells) ==
    LET c == Pop(cells)
        n == Len(c)
        e == c \o << nw, ne, sw, se >>
    IN  [res |-> Len(e), cells |-> Append(e, Cell_new(n, n + 1, n + 2, n + 3))]

World == [root |-> root, buf |-> buf, depth |-> depth, status |-> status]

\* The live cells of a world: the pixels the tree walk from the root draws,
\* the root's centre at the origin (x to the right, y down)
LiveCellsOf(w) ==
    draw_cell(At(w.buf, w.root), w.buf, w.depth, -Pow2(w.depth + 2), -Pow2(w.depth + 2))

LiveCells == LiveCellsOf(World)

-----------------------------------------------------------------------------
(* SpecWorld: a world that is set up, grown and stepped *)

\* The deepest world World::new builds and grow reaches
MaxDepth == 2

\* The largest argument of grow
MaxGrow == 2

\* The deepest world that is stepped
MaxNextDepth == 1

\* The number of operations in a run
MaxSteps == 2

\* Leaves of the worlds: empty, a block in a corner, a block off the centre
\* (build_8_cell's quadrants), the glider leaf of build_8_glider
WorldLeaves ==
    { leaf_uninit, leaf(52224, 0, 0, 0), leaf(8560, 1110, 27168, 3716) }

InitWorld ==
    /\ rule \in RuleSets
    /\ checks \in BOOLEAN
    /\ \E d \in 0 .. MaxDepth :
          LET w == World_new(d)
          IN  root = w.root /\ buf = w.buf /\ depth = w.depth /\ status = w.status
    /\ op = "new"
    /\ arg = 0
    /\ out = 0
    /\ sets = {}
    /\ steps = 0
    /\ cellbuf = NoCellBuf
    /\ cam = NoCamera
    /\ term = NoTerm

SetWorld(w) ==
    /\ root' = w.root
    /\ buf' = w.buf
    /\ depth' = w.depth
    /\ status' = w.status

SetupWorld ==
    /\ op = "new" /\ depth = 0
    /\ \E l \in WorldLeaves, d \in 0 .. MaxDepth :
          /\ SetWorld(setup_world(l, d))
          /\ arg' = d
    /\ op' = "setup_world"
    /\ UNCHANGED << rule, checks, out, sets, steps, cellbuf, cam, term >>

BuildCell ==
    /\ op = "new" /\ depth = 0
    /\ \E nw \in WorldLeaves, ne \in WorldLeaves, sw \in WorldLeaves, se \in WorldLeaves :
          LET r == build_cell(nw, ne, sw, se, buf)
          IN  /\ buf' = r.cells
              /\ root' = r.res
              /\ out' = r.res
    /\ depth' = 1
    /\ op' = "build_cell"
    /\ UNCHANGED << rule, checks, status, arg, sets, steps, cellbuf, cam, term >>

Grow ==
    /\ status = "ok" /\ steps < MaxSteps
    /\ \E k \in 0 .. MaxGrow :
          /\ depth + k <= MaxDepth
          /\ SetWorld(World_grow(World, k, checks))
          /\ arg' = k
    /\ op' = "grow"
    /\ steps' = steps + 1
    /\ UNCHANGED << rule, checks, out, sets, cellbuf, cam, term >>

Next ==
    /\ status = "ok" /\ steps < MaxSteps
    /\ depth <= MaxNextDepth
    /\ SetWorld(World_next(World, compute_rules(rule), checks))
    /\ arg' = depth
    /\ op' = "next"
    /\ steps' = steps + 1
    /\ UNCHANGED << rule, checks, out, sets, cellbuf, cam, term >>

NextWorld == SetupWorld \/ BuildCell \/ Grow \/ Next

SpecWorld == InitWorld /\ [][NextWorld]_vars

-----------------------------------------------------------------------------
(* SpecResult: Cell::next called on the root cell of a world that was set up *)

\* let mut cell = buf[root]; cell.next(&rules, &mut buf)
CellNext ==
    /\ status = "ok" /\ steps < MaxSteps
    /\ op \in { "setup_world", "build_cell", "Cell_next" }
    /\ LET r == Cell_next(At(buf, root), compute_rules(rule), buf)
       IN  /\ buf' = r.buf
           /\ out' = r.res
    /\ arg' = out
    /\ op' = "Cell_next"
    /\ steps' = steps + 1
    /\ UNCHANGED << rule, root, depth, checks, status, sets, cellbuf, cam, term >>

NextResult == SetupWorld \/ BuildCell \/ CellNext

SpecResult == InitWorld /\ [][NextResult]_vars

\* The root is a node with children: neither void nor a leaf
InteriorRoot == ~is_void(At(buf, root)) /\ ~is_leaf(At(buf, root))

\* The pixels of the square of side 2^n whose top left corner is <<lo, lo>>
Square(lo, n) == (lo .. (lo + Pow2(n) - 1)) \X (lo .. (lo + Pow2(n) - 1))

\* C2: the result of a node of level k >= 4 is the central 2^(k-1) square of
\* the node after 2^(k-2) generations of naive simulation.
C2_NodeResultGenerations ==
    (op = "Cell_next" /\ depth >= 1 /\ InteriorRoot) =>
        draw_cell(At(buf, out), buf, depth - 1, Pow2(depth + 1), Pow2(depth + 1))
            = Simulate(draw_cell(At(buf, root), buf, depth, 0, 0),
                       0, Pow2(depth + 3) - 1, Pow2(depth + 1), rule)

\* What the code returns instead: the central square after 2^(k-3) generations
NodeResultHalfGenerations ==
    (op = "Cell_next" /\ depth >= 1 /\ InteriorRoot) =>
        draw_cell(At(buf, out), buf, depth - 1, Pow2(depth + 1), Pow2(depth + 1))
            = Simulate(draw_cell(At(buf, root), buf, depth, 0, 0),
                       0, Pow2(depth + 3) - 1, Pow2(depth), rule)
                \cap Square(Pow2(depth + 1), depth + 2)

\* C4: calling result twice on the same interior node returns the same index
\* both times, and the second call adds no entry to the arena.
C4_ResultMemoized ==
    [][(op = "Cell_next" /\ op' = "Cell_next" /\ InteriorRoot)
          => (out' = out /\ Len(buf') = Len(buf))]_vars

-----------------------------------------------------------------------------
(* Claims about SpecWorld *)

VoidIndices == { i \in 0 .. (Len(buf) - 1) : is_void(At(buf, i)) }

\* The entries that are nodes with children
NodeIndices ==
    { i \in 0 .. (Len(buf) - 1) : ~is_void(At(buf, i)) /\ ~is_leaf(At(buf, i)) }

\* C5: exactly one arena entry is void, every empty subtree refers to it (no
\* entry is an empty leaf), and no node has four void children.
C5_OneVoidEntry ==
    /\ Cardinality(VoidIndices) = 1
    /\ \A i \in 0 .. (Len(buf) - 1) : At(buf, i) # leaf_uninit
    /\ \A i \in NodeIndices :
          ~({ At(buf, i).nw, At(buf, i).ne, At(buf, i).sw, At(buf, i).se } \subseteq VoidIndices)

RECURSIVE HasLevel(_, _, _)
HasLevel(cell, b, d) ==
    IF is_void(cell) THEN TRUE
    ELSE IF is_leaf(cell) THEN d = 0
    ELSE /\ d > 0
         /\ \A i \in { cell.nw, cell.ne, cell.sw, cell.se } :
               i < Len(b) /\ HasLevel(At(b, i), b, d - 1)

\* C7: a step completes and leaves the depth as it was, the root a node of
\* that level, whatever the depth.
C7_StepKeepsLevel ==
    [][op' = "next"
          => (status' = "ok" /\ depth' = depth
              /\ root' < Len(buf') /\ HasLevel(At(buf', root'), buf', depth'))]_vars

IsBlock(S) ==
    \E p \in S : S = { p, << p[1] + 1, p[2] >>, << p[1], p[2] + 1 >>, << p[1] + 1, p[2] + 1 >> }

\* C8: a world whose live cells are one 2x2 block, anywhere in the root's
\* span, has the same live cells after a step (rule b3s23).
C8_StillLifeKept ==
    [][(op' = "next" /\ status' = "ok" /\ depth >= 1
        /\ rule = from_str(LIFE_RULES).rule /\ IsBlock(LiveCells))
          => LiveCells' = LiveCells]_vars

-----------------------------------------------------------------------------
(* SpecSet: set_bit on the root of a world that was set up *)

\* set_bit: returns [buf, status].  level is its depth argument: 3 at a leaf
RECURSIVE set_bit(_, _, _, _, _)
set_bit(b, cell_ptr, x, y, level) ==
    IF level < 3 \/ cell_ptr >= Len(b) THEN [buf |-> b, status |-> "panic"]
    ELSE IF level = 3
    THEN LET bit == Pow2(3 - (x % 4) + 4 * (y % 4))
             i   == cell_ptr + 1
         IN  [buf |-> IF x < 0
                      THEN IF y < 0 THEN [b EXCEPT ![i].sw = Or(@, bit)]
                                    ELSE [b EXCEPT ![i].nw = Or(@, bit)]
                      ELSE IF y < 0 THEN [b EXCEPT ![i].se = Or(@, bit)]
                                    ELSE [b EXCEPT ![i].ne = Or(@, bit)],
              status |-> "ok"]
    ELSE LET cell == At(b, cell_ptr)
             child_ptr == IF x < 0
                          THEN IF y < 0 THEN cell.sw ELSE cell.nw
                          ELSE IF y < 0 THEN cell.se ELSE cell.ne
             w == Pow2(level)
         IN  IF child_ptr = 0 THEN [buf |-> b, status |-> "panic"]
             ELSE set_bit(b, child_ptr, (x % w) - (w \div 2), (y % w) - (w \div 2), level - 1)

\* The largest x passed to set_bit; the smallest is -MaxX - 1
MaxX == 4

\* The largest y passed to set_bit; the smallest is -MaxY - 1
MaxY == 1

\* The number of set_bit calls in a run
MaxSets == 2

SetCoords == ((-MaxX - 1) .. MaxX) \X ((-MaxY - 1) .. MaxY)

SetLeaves == { leaf_uninit, leaf(52224, 0, 0, 0) }

InitSet ==
    /\ rule = from_str(LIFE_RULES).rule
    /\ checks = TRUE
    /\ LET w == World_new(0)
       IN  root = w.root /\ buf = w.buf /\ depth = w.depth /\ status = w.status
    /\ op = "new"
    /\ arg = << 0, 0 >>
    /\ out = 0
    /\ sets = {}
    /\ steps = 0
    /\ cellbuf = NoCellBuf
    /\ cam = NoCamera
    /\ term = NoTerm

SetupSet ==
    /\ op = "new"
    /\ \E l \in SetLeaves, d \in 0 .. 1 : SetWorld(setup_world(l, d))
    /\ op' = "setup_world"
    /\ UNCHANGED << rule, checks, arg, out, sets, steps, cellbuf, cam, term >>

BuildSet ==
    /\ op = "new"
    /\ \E nw \in SetLeaves, ne \in SetLeaves, sw \in SetLeaves, se \in SetLeaves :
          LET r == build_cell(nw, ne, sw, se, buf)
          IN  /\ buf' = r.cells
              /\ root' = r.res
              /\ out' = r.res
    /\ depth' = 1
    /\ op' = "build_cell"
    /\ UNCHANGED << rule, checks, status, arg, sets, steps, cellbuf, cam, term >>

\* set_bit(&mut buf, root, x, y, depth + 3)
SetBit ==
    /\ status = "ok" /\ steps < MaxSets
    /\ op \in { "world_new", "setup_world", "build_cell", "set_bit" }
    /\ \E c \in SetCoords :
          LET r == set_bit(buf, root, c[1], c[2], depth + 3)
          IN  /\ buf' = r.buf
              /\ status' = r.status
              /\ arg' = c
              /\ sets' = sets \cup { c }
    /\ op' = "set_bit"
    /\ steps' = steps + 1
    /\ UNCHANGED << rule, root, depth, checks, out, cellbuf, cam, term >>

\* World::new(1, rule): an empty world of level 4, its root the void cell
EmptySet ==
    /\ op = "new"
    /\ SetWorld(World_new(1))
    /\ op' = "world_new"
    /\ UNCHANGED << rule, checks, arg, out, sets, steps, cellbuf, cam, term >>

NextSet == SetupSet \/ BuildSet \/ EmptySet \/ SetBit

SpecSet == InitSet /\ [][NextSet]_vars

\* The live cells in root-centred coordinates, y upward (north is y >= 0)
LiveXY == { << p[1], -1 - p[2] >> : p \in LiveCells }

\* The root's span
InSpan == ((-Pow2(depth + 2)) .. (Pow2(depth + 2) - 1)) \X ((-Pow2(depth + 2)) .. (Pow2(depth + 2) - 1))

\* No two children of the root are the same entry
Unshared ==
    depth = 0 \/ Cardinality({ At(buf, root).nw, At(buf, root).ne,
                               At(buf, root).sw, At(buf, root).se }) = 4

\* C9: in a world of level k >= 3 whose nodes on the path exist, set(x, y) with
\* (x, y) in the root's span makes live exactly the cell at (x, y), so the tree
\* walk returns the coordinates that were set.
C9_SetReadBack ==
    [][(op' = "set_bit" /\ status' = "ok" /\ arg' \in InSpan /\ Unshared)
          => LiveXY' = LiveXY \cup { arg' }]_vars

\* What holds of set_bit: the same, for a world of level 3
SetReadBackLeaf ==
    [][(op' = "set_bit" /\ status' = "ok" /\ arg' \in InSpan /\ depth = 0)
          => LiveXY' = LiveXY \cup { arg' }]_vars

\* C10: set(x, y) with x or y outside the root's span aborts and sets no cell.
C10_SetOutOfSpanFails ==
    [][(op' = "set_bit" /\ arg' \notin InSpan) => (status' = "panic" /\ buf' = buf)]_vars

-----------------------------------------------------------------------------
(* SpecBuf: the open-addressed cell table, CellBuf *)

Word == Pow2(WORD_SIZE_BITS)

node_hash(c) == (c.se + 3 * ((c.sw + 3 * ((c.ne + 3 * c.nw + 3) % Word)) % Word)) % Word

leaf_hash(c) == (c.se + 9 * ((c.sw + 9 * ((c.ne + 9 * c.nw) % Word)) % Word)) % Word

hash(c) == IF is_leaf(c) THEN leaf_hash(c) ELSE node_hash(c)

\* An unset slot of the table
unset == uninit

RECURSIVE is_prime_loop(_, _)
is_prime_loop(n, i) ==
    IF i * i < n
    THEN IF i % n = 0 THEN FALSE ELSE is_prime_loop(n, i + 2)
    ELSE TRUE

is_prime(n) == is_prime_loop(n, 3)

RECURSIVE next_prime_loop(_)
next_prime_loop(n) == IF is_prime(n) THEN n ELSE next_prime_loop(n + 2)

next_prime(n) == next_prime_loop(IF n % 2 = 0 THEN n + 1 ELSE n)

C1 == 1

C2 == 1

\* insert_buf: probes (h + C1 i + C2 i^2) % n for the first unset slot.  The
\* probe sequence has period n, so a table without an unset slot on it is
\* probed forever.  Returns [status, index, buf].
RECURSIVE insert_probe(_, _, _, _)
insert_probe(cell, b, h, i) ==
    LET n == Len(b)
        index == (h + C1 * i + C2 * i * i) % n
    IN  IF i >= n THEN [status |-> "diverge", index |-> 0, buf |-> b]
        ELSE IF At(b, index) = unset
             THEN [status |-> "ok", index |-> index, buf |-> [b EXCEPT ![index + 1] = cell]]
             ELSE insert_probe(cell, b, h, i + 1)

insert_buf(cell, b) == insert_probe(cell, b, hash(cell), 0)

\* move_cell: the cell at index of the old table is re-inserted in the new one,
\* its children first.  stack holds the indices of the calls in progress: a
\* call on one of them recurses forever.  No cell has a result, and the index
\* of the unset result is outside the table.
RECURSIVE move_cell(_, _, _, _)
move_cell(old, index, new, stack) ==
    IF index >= Len(old) THEN [status |-> "panic", index |-> 0, buf |-> new]
    ELSE IF index \in stack THEN [status |-> "diverge", index |-> 0, buf |-> new]
    ELSE LET cell == At(old, index)
         IN  IF is_leaf(cell) THEN insert_buf(cell, new)
             ELSE LET st == stack \cup { index }
                      a  == move_cell(old, cell.nw, new, st)
                      b  == move_cell(old, cell.ne, a.buf, st)
                      c  == move_cell(old, cell.sw, b.buf, st)
                      d  == move_cell(old, cell.se, c.buf, st)
                  IN  IF a.status # "ok" THEN a
                      ELSE IF b.status # "ok" THEN b
                      ELSE IF c.status # "ok" THEN c
                      ELSE IF d.status # "ok" THEN d
                      ELSE [status |-> "panic", index |-> 0, buf |-> d.buf]

\* The capacity asked of next_prime by CellBuf::new
InitialCapacity == 6

CellBuf_new == [root |-> 0, buf |-> [i \in 1 .. next_prime(InitialCapacity) |-> unset], size |-> 0]

\* CellBuf::grow: the new table is filled and dropped, self.buf stays
CellBuf_grow(cb) ==
    LET n == next_prime(Len(cb.buf) * 2)
        r == move_cell(cb.buf, cb.root, [i \in 1 .. n |-> unset], {})
    IN  [status |-> r.status, cb |-> [cb EXCEPT !.root = r.index]]

\* CellBuf::insert: returns [status, index, cb]
CellBuf_insert(cb, cell) ==
    LET g  == IF 5 * cb.size > 4 * Len(cb.buf)
              THEN CellBuf_grow(cb)
              ELSE [status |-> "ok", cb |-> cb]
        r  == insert_buf(cell, g.cb.buf)
    IN  IF g.status # "ok" THEN [status |-> g.status, index |-> 0, cb |-> g.cb]
        ELSE [status |-> r.status, index |-> r.index,
              cb |-> [g.cb EXCEPT !.size = @ + 1, !.buf = r.buf]]

\* The number of insert calls in a run
MaxInserts == 7

\* leaf(1, 0, 0, 4) hashes to slot 0 of the first table, where root points
BufCells ==
    { leaf(1, 0, 0, 0), leaf(0, 0, 0, 1), leaf(51, 204, 13056, 52224), Cell_new(1, 2, 3, 4),
      leaf(1, 0, 0, 4) }

InitBuf ==
    /\ rule = from_str(LIFE_RULES).rule
    /\ checks = TRUE
    /\ root = 0 /\ buf = << >> /\ depth = 0
    /\ status = "ok"
    /\ op = "new"
    /\ arg = unset
    /\ out = 0
    /\ sets = {}
    /\ steps = 0
    /\ cellbuf = CellBuf_new
    /\ cam = NoCamera
    /\ term = NoTerm

Insert ==
    /\ status = "ok" /\ steps < MaxInserts
    /\ \E cell \in BufCells :
          LET r == CellBuf_insert(cellbuf, cell)
          IN  /\ cellbuf' = r.cb
              /\ status' = r.status
              /\ out' = r.index
              /\ arg' = cell
    /\ op' = "insert"
    /\ steps' = steps + 1
    /\ UNCHANGED << rule, root, buf, depth, checks, sets, cam, term >>

NextBuf == Insert

SpecBuf == InitBuf /\ [][NextBuf]_vars

Occupied == { i \in 0 .. Len(cellbuf.buf) - 1 : At(cellbuf.buf, i) # unset }

\* C3: inserting a node equal to one the table holds returns the index of that
\* one and takes no further slot, so no two occupied slots hold equal nodes.
C3_InsertCanonical ==
    \A i \in Occupied, j \in Occupied : At(cellbuf.buf, i) = At(cellbuf.buf, j) => i = j

-----------------------------------------------------------------------------
(* SpecRule: the rule table of a rule, entry by entry *)

DigitChars == << "0", "1", "2", "3", "4", "5", "6", "7", "8", "9" >>

\* The digits of a set of counts, in increasing order, as characters
Digits(B) ==
    LET idx == SelectSeq(<< 0, 1, 2, 3, 4, 5, 6, 7, 8, 9 >>, LAMBDA n : n \in B)
    IN  [i \in 1 .. Len(idx) |-> DigitChars[idx[i] + 1]]

\* The rule string of a birth set and a survival set, as LIFE_RULES is written
RuleString(B, S) == << "b" >> \o Digits(B) \o << "s" >> \o Digits(S)

\* The rows of the 4x4 configurations looked up
RowPatterns == << 0, 15, 6, 9, 5, 10, 3, 12 >>

\* The number of RowPatterns in use
NRows == 6

Rows == { RowPatterns[i] : i \in 1 .. NRows }

Configs == { 4096 * a + 256 * b + 16 * c + d : a \in Rows, b \in Rows, c \in Rows, d \in Rows }

\* The birth and survival sets of the rules
RulePairs ==
    { << {3}, {2, 3} >>, << {3, 6}, {2, 3} >>, << {}, {} >>, << {0, 8}, {1, 7} >>,
      << {1, 2, 4, 5, 7}, {0, 4, 5, 6, 8} >>, << 0 .. 8, 0 .. 8 >> }

InitRule ==
    /\ \E bs \in RulePairs, c \in Configs :
          /\ rule = from_str(RuleString(bs[1], bs[2])).rule
          /\ arg = [births |-> bs[1], survivals |-> bs[2], cell |-> c]
    /\ checks = TRUE
    /\ root = 0 /\ buf = << >> /\ depth = 0
    /\ status = "ok"
    /\ op = "new"
    /\ out = 0
    /\ sets = {}
    /\ steps = 0
    /\ cellbuf = NoCellBuf
    /\ cam = NoCamera
    /\ term = NoTerm

\* rules[cell], rules the table compute_rules returns
TableEntry ==
    /\ op = "new"
    /\ out' = compute_rules(rule)[arg.cell]
    /\ op' = "compute_rules"
    /\ UNCHANGED << rule, root, buf, depth, checks, status, arg, sets, steps, cellbuf, cam, term >>

NextRule == TableEntry

SpecRule == InitRule /\ [][NextRule]_vars

\* The four central cells of a 4x4 configuration, as << column, row >>
Central == { << 1, 1 >>, << 2, 1 >>, << 1, 2 >>, << 2, 2 >> }

\* The number of live cells among the eight neighbours of p in configuration c
LiveNeighbours(c, p) == Cardinality(Neighbours(p) \cap draw_rule(c, 0, 0))

\* C11: each central cell of the table entry of c is live iff it is dead in c
\* and its live-neighbour count is in B, or live in c and the count is in S.
C11_TableEntryByRule ==
    op = "compute_rules" =>
       \A p \in Central :
          p \in draw_rule(out, 0, 0)
             <=> \/ p \notin draw_rule(arg.cell, 0, 0) /\ LiveNeighbours(arg.cell, p) \in arg.births
                 \/ p \in draw_rule(arg.cell, 0, 0) /\ LiveNeighbours(arg.cell, p) \in arg.survivals

\* An entry of the b3s23 table with a birth or a death among its central cells
C11_Witness ==
    /\ op = "compute_rules"
    /\ arg.births = {3} /\ arg.survivals = {2, 3}
    /\ out # 0 /\ out # And(arg.cell, 1632)

\* C12 as it holds: only bits 5, 6, 9 and 10 of a table entry, the central 2x2
\* of the 4x4, are ever set.
C12_OnlyCentralBits == op = "compute_rules" => And(out, 65535 - 1632) = 0

\* An entry with all four central bits set
C12_Witness == op = "compute_rules" /\ out = 1632

\* C12 as stated: only bits 5, 11, 3 and 13 of a table entry are ever set.
C12_OnlyStatedBits == op = "compute_rules" => And(out, 65535 - (32 + 2048 + 8 + 8192)) = 0

-----------------------------------------------------------------------------
(* parse_util: byte slices are sequences of one-character strings *)

is_ascii_whitespace(b) == b \in { " ", "\n", "\r", "\t", "\f" }

is_ascii_digit(b) == b \in { "0", "1", "2", "3", "4", "5", "6", "7", "8", "9" }

\* &bytes[i..], i counted from 0
From(bytes, i) == SubSeq(bytes, i + 1, Len(bytes))

\* The bytes that occur in a slice
Bytes(bytes) == { bytes[i] : i \in DOMAIN bytes }

\* The first index, from 0, of a byte that satisfies p; Len(bytes) when none
\* does. A predicate on bytes is given as a function on the bytes of the slice
RECURSIVE FirstIndex(_, _, _)
FirstIndex(p, bytes, j) ==
    IF j >= Len(bytes) THEN Len(bytes)
    ELSE IF p[bytes[j + 1]] THEN j ELSE FirstIndex(p, bytes, j + 1)

NotWhitespace(b) == ~is_ascii_whitespace(b)

take_ws(bytes) == From(bytes, FirstIndex([b \in Bytes(bytes) |-> NotWhitespace(b)], bytes, 0))

\* take_1: [some, val, rest]
take_1(bytes) ==
    IF Len(bytes) = 0 THEN [some |-> FALSE, val |-> "", rest |-> bytes]
    ELSE [some |-> TRUE, val |-> Head(bytes), rest |-> Tail(bytes)]

\* peek_1: [some, val]
peek_1(bytes) ==
    IF Len(bytes) = 0 THEN [some |-> FALSE, val |-> ""]
    ELSE [some |-> TRUE, val |-> Head(bytes)]

\* expect: [ok, rest]
expect(b, bytes) ==
    IF Len(bytes) > 0 /\ Head(bytes) = b THEN [ok |-> TRUE, rest |-> Tail(bytes)]
    ELSE [ok |-> FALSE, rest |-> bytes]

\* expect_slice: [ok, rest]
expect_slice(bs, bytes) ==
    IF Len(bytes) >= Len(bs) /\ SubSeq(bytes, 1, Len(bs)) = bs
    THEN [ok |-> TRUE, rest |-> From(bytes, Len(bs))]
    ELSE [ok |-> FALSE, rest |-> bytes]

\* is: b == bytes
is(b, bytes) == bytes = << b >>

\* take_until_fn: [some, val, rest].  The index stays 0 both when the first
\* byte satisfies p and when no byte does, and 0 gives None.
take_until_fn(p, bytes) ==
    LET f == FirstIndex(p, bytes, 0)
        i == IF f = Len(bytes) THEN 0 ELSE f
    IN  IF i = 0 THEN [some |-> FALSE, val |-> << >>, rest |-> bytes]
        ELSE [some |-> TRUE, val |-> SubSeq(bytes, 1, i), rest |-> From(bytes, i)]

take_until(b, bytes) == take_until_fn([a \in Bytes(bytes) |-> a = b], bytes)

take_until_ws(bytes) == take_until_fn([b \in Bytes(bytes) |-> is_ascii_whitespace(b)], bytes)

take_with(b, bytes) ==
    LET r == take_until(b, bytes)
    IN  IF ~r.some THEN r ELSE [r EXCEPT !.rest = take_1(r.rest).rest]

\* The value of a sequence of digits
RECURSIVE DigitsValue(_)
DigitsValue(ds) ==
    IF Len(ds) = 0 THEN 0
    ELSE 10 * DigitsValue(SubSeq(ds, 1, Len(ds) - 1)) + to_digit(ds[Len(ds)])

\* convert, the integer FromStr: [ok, val].  An optional sign, a minus only for
\* a signed type, then one digit at least.  The inputs are too short to
\* overflow the type.
convert(bytes, signed) ==
    LET neg  == signed /\ Len(bytes) > 0 /\ Head(bytes) = "-"
        sign == Len(bytes) > 0 /\ (Head(bytes) = "+" \/ neg)
        ds   == IF sign THEN Tail(bytes) ELSE bytes
    IN  IF Len(ds) = 0 \/ \E i \in 1 .. Len(ds) : ~is_ascii_digit(ds[i])
        THEN [ok |-> FALSE, val |-> 0]
        ELSE [ok |-> TRUE, val |-> IF neg THEN -DigitsValue(ds) ELSE DigitsValue(ds)]

-----------------------------------------------------------------------------
(* rule_set: the rule of an RLE file, [rule, ext] *)

\* bytes_to_num: [ok, val], the bit of every digit set
RECURSIVE bytes_to_num_loop(_, _, _)
bytes_to_num_loop(bytes, i, n) ==
    IF i > Len(bytes) THEN [ok |-> TRUE, val |-> n]
    ELSE IF ~is_ascii_digit(bytes[i]) THEN [ok |-> FALSE, val |-> 0]
    ELSE bytes_to_num_loop(bytes, i + 1, Or(n, Pow2(to_digit(bytes[i]))))

bytes_to_num(bytes) == bytes_to_num_loop(bytes, 1, 0)

\* RuleSize::Unbounded; RuleSize::Bounded(n) is [bounded |-> TRUE, n |-> n]
Unbounded == [bounded |-> FALSE, n |-> 0]

\* No extension
NoExt == [topology |-> "None", width |-> Unbounded, height |-> Unbounded]

\* RuleSet::new
RuleSet_new(b, s) == [rule |-> And(b, 511) * 65536 + And(s, 511), ext |-> NoExt]

RuleSet_with_extension(b, s, ext) == [rule |-> And(b, 511) * 65536 + And(s, 511), ext |-> ext]

\* The rule of RuleSet::default()
B3S23 == RuleSet_new(8, 12)

survival_stop_fn(b) == is_ascii_whitespace(b) \/ b = ":"

\* A width or a height: [ok, val]
rule_size(bs) ==
    LET c == convert(bs, FALSE)
    IN  IF c.ok THEN [ok |-> TRUE, val |-> [bounded |-> TRUE, n |-> c.val]]
        ELSE IF is("*", bs) THEN [ok |-> TRUE, val |-> Unbounded]
        ELSE [ok |-> FALSE, val |-> Unbounded]

\* parse_rule_extension: [ok, ext, rest]
parse_rule_extension(bytes) ==
    LET fail == [ok |-> FALSE, ext |-> NoExt, rest |-> bytes]
        e1 == expect(":", bytes)
        t  == take_1(e1.rest)
        w  == take_until(",", t.rest)
        e2 == expect(",", w.rest)
        h  == take_until_ws(e2.rest)
    IN  IF ~e1.ok \/ ~t.some \/ t.val \notin { "P", "T", "K", "S", "C" } THEN fail
        ELSE IF ~w.some \/ ~rule_size(w.val).ok \/ ~e2.ok THEN fail
        ELSE IF ~h.some \/ ~rule_size(h.val).ok THEN fail
        ELSE [ok |-> TRUE,
              ext |-> [topology |-> t.val, width |-> rule_size(w.val).val,
                       height |-> rule_size(h.val).val],
              rest |-> h.rest]

\* What follows the survival count: [ok, set, rest]
rule_tail(b, s, bytes) ==
    IF peek_1(bytes) = [some |-> TRUE, val |-> ":"]
    THEN LET e == parse_rule_extension(bytes)
         IN  IF e.ok THEN [ok |-> TRUE, set |-> RuleSet_with_extension(b, s, e.ext), rest |-> e.rest]
             ELSE [ok |-> FALSE, set |-> B3S23, rest |-> bytes]
    ELSE [ok |-> TRUE, set |-> RuleSet_new(b, s), rest |-> bytes]

\* parse_rule: [ok, set, rest]
parse_rule(bytes) ==
    LET fail == [ok |-> FALSE, set |-> B3S23, rest |-> bytes]
        t1 == take_1(bytes)
        b  == take_until("/", t1.rest)
        e  == expect("/", b.rest)
        t2 == take_1(e.rest)
        s  == take_until_fn([c \in Bytes(t2.rest) |-> survival_stop_fn(c)], t2.rest)
    IN  IF ~t1.some \/ t1.val \notin { "b", "B" } THEN fail
        ELSE IF ~b.some \/ ~bytes_to_num(b.val).ok \/ ~e.ok THEN fail
        ELSE IF ~t2.some \/ t2.val \notin { "s", "S" } THEN fail
        ELSE IF ~s.some \/ ~bytes_to_num(s.val).ok THEN fail
        ELSE rule_tail(bytes_to_num(b.val).val, bytes_to_num(s.val).val, s.rest)

\* parse_nameless_rule: [ok, set, rest]
parse_nameless_rule(bytes) ==
    LET fail == [ok |-> FALSE, set |-> B3S23, rest |-> bytes]
        b  == take_until("/", bytes)
        e  == expect("/", b.rest)
        s  == take_until_fn([c \in Bytes(e.rest) |-> survival_stop_fn(c)], e.rest)
    IN  IF ~b.some \/ ~bytes_to_num(b.val).ok \/ ~e.ok THEN fail
        ELSE IF ~s.some \/ ~bytes_to_num(s.val).ok THEN fail
        ELSE rule_tail(bytes_to_num(b.val).val, bytes_to_num(s.val).val, s.rest)

-----------------------------------------------------------------------------
(* SpecParse: rule strings given to World::new, parse_rule and
   parse_nameless_rule *)

\* The birth and survival counts of the rule strings
DigitSeqPatterns ==
    << << "3" >>, << "2", "3" >>, << "3", "9" >>, << "0", "8" >>, << "9" >>, << >>,
       << "1", "4", "7" >>, << "2", "5", "6" >> >>

\* The number of DigitSeqPatterns in use
NDigitSeqs == 6

DigitSeqs == { DigitSeqPatterns[i] : i \in 1 .. NDigitSeqs }

\* What follows the rule in the input
RuleTails == { << >>, << "\n" >>, << ":", "T", "1", "0", ",", "*", "\n" >> }

\* The shapes of a rule string: b3s23, b3/s23, B3/S23, 3/23
RuleForms == { "bs", "b/s", "B/S", "/" }

RenderRule(r) ==
    (CASE r.form = "bs"  -> << "b" >> \o r.b \o << "s" >> \o r.s
       [] r.form = "b/s" -> << "b" >> \o r.b \o << "/", "s" >> \o r.s
       [] r.form = "B/S" -> << "B" >> \o r.b \o << "/", "S" >> \o r.s
       [] OTHER          -> r.b \o << "/" >> \o r.s) \o r.tail

InitParse ==
    /\ arg \in [b : DigitSeqs, s : DigitSeqs, form : RuleForms, tail : RuleTails]
    /\ rule = 0
    /\ checks = TRUE
    /\ root = 0 /\ buf = << >> /\ depth = 0
    /\ status = "ok"
    /\ op = "input"
    /\ out = [ok |-> FALSE, set |-> B3S23, rest |-> << >>]
    /\ sets = {}
    /\ steps = 0
    /\ cellbuf = NoCellBuf
    /\ cam = NoCamera
    /\ term = NoTerm

\* World::new(0, s): an Err of the parse is returned, and no world is made
WorldNew ==
    /\ op = "input"
    /\ LET r == from_str(RenderRule(arg))
           w == World_new(0)
       IN  IF r.err
           THEN status' = "err" /\ UNCHANGED << rule, root, buf, depth >>
           ELSE /\ status' = "ok"
                /\ rule' = r.rule
                /\ root' = w.root /\ buf' = w.buf /\ depth' = w.depth
    /\ op' = "World_new"
    /\ UNCHANGED << checks, arg, out, sets, steps, cellbuf, cam, term >>

ParseRule ==
    /\ op = "input"
    /\ out' = parse_rule(RenderRule(arg))
    /\ op' = "parse_rule"
    /\ UNCHANGED << rule, root, buf, depth, checks, status, arg, sets, steps, cellbuf, cam, term >>

ParseNamelessRule ==
    /\ op = "input"
    /\ out' = parse_nameless_rule(RenderRule(arg))
    /\ op' = "parse_nameless_rule"
    /\ UNCHANGED << rule, root, buf, depth, checks, status, arg, sets, steps, cellbuf, cam, term >>

NextParse == WorldNew \/ ParseRule \/ ParseNamelessRule

SpecParse == InitParse /\ [][NextParse]_vars

\* The counts a sequence of digits names
CountSet(ds) == { to_digit(ds[i]) : i \in 1 .. Len(ds) }

\* C13: World::new accepts a rule string of the shape B<digits>/S<digits>, in
\* either case and with digits 0..8, and the world's rule has those birth and
\* survival sets.
C13_SlashRuleAccepted ==
    (/\ op = "World_new"
     /\ arg.form \in { "b/s", "B/S" } /\ arg.tail = << >>
     /\ arg.b # << >> /\ arg.s # << >>
     /\ CountSet(arg.b) \cup CountSet(arg.s) \subseteq 0 .. 8)
       => (/\ status = "ok"
           /\ BirthSet(rule) = CountSet(arg.b)
           /\ SurvivalSet(rule) = CountSet(arg.s))

\* What holds of World::new: the same for the shape b<digits>s<digits>
RuleAcceptedWithoutSlash ==
    (/\ op = "World_new"
     /\ arg.form = "bs" /\ arg.tail = << >>
     /\ CountSet(arg.b) \cup CountSet(arg.s) \subseteq 0 .. 8)
       => (/\ status = "ok"
           /\ BirthSet(rule) = CountSet(arg.b)
           /\ SurvivalSet(rule) = CountSet(arg.s))

\* C14: parse_rule and parse_nameless_rule return an error for a rule string
\* whose birth or survival count has the digit 9.
C14_NineRejected ==
    (/\ op \in { "parse_rule", "parse_nameless_rule" }
     /\ 9 \in CountSet(arg.b) \cup CountSet(arg.s))
       => ~out.ok

-----------------------------------------------------------------------------
(* parse_rle: read_rle and what it calls *)

\* read_coordinates: [ok, x, y, rest]
read_coordinates(bytes) ==
    LET fail == [ok |-> FALSE, x |-> 0, y |-> 0, rest |-> bytes]
        e1 == expect("x", bytes)
        e2 == expect("=", take_ws(e1.rest))
        xb == take_with(",", take_ws(e2.rest))
        x  == convert(xb.val, TRUE)
        e3 == expect("y", take_ws(xb.rest))
        e4 == expect("=", take_ws(e3.rest))
        yr == take_ws(e4.rest)
        yb == take_until_fn([b \in Bytes(yr) |-> b = "," \/ b = "\n"], yr)
        y  == convert(yb.val, TRUE)
    IN  IF ~e1.ok \/ ~e2.ok \/ ~xb.some \/ ~x.ok THEN fail
        ELSE IF ~e3.ok \/ ~e4.ok \/ ~yb.some \/ ~y.ok THEN fail
        ELSE [ok |-> TRUE, x |-> x.val, y |-> y.val, rest |-> yb.rest]

\* An RleCommentLine of no kind: read_line_comment found no comment line
NoLine == [kind |-> "None", text |-> << >>, x |-> 0, y |-> 0, set |-> B3S23]

\* read_line_comment: [ok, line, rest]
read_line_comment(bytes) ==
    LET e == expect("#", bytes)
        t == take_1(e.rest)
        b == t.val
        err == [ok |-> FALSE, line |-> NoLine, rest |-> bytes]
        text == take_with("\n", take_ws(t.rest))
        co == read_coordinates(take_ws(t.rest))
        ru == parse_nameless_rule(take_ws(t.rest))
    IN  IF ~e.ok THEN [ok |-> TRUE, line |-> NoLine, rest |-> bytes]
        ELSE IF ~t.some THEN err
        ELSE IF b \in { "C", "c" }
        THEN [ok |-> TRUE, line |-> [NoLine EXCEPT !.kind = "Comment"],
              rest |-> take_with("\n", t.rest).rest]
        ELSE IF b \in { "N", "O" }
        THEN IF ~text.some THEN err
             ELSE [ok |-> TRUE,
                   line |-> [NoLine EXCEPT !.kind = IF b = "N" THEN "Name" ELSE "Author",
                                           !.text = text.val],
                   rest |-> text.rest]
        ELSE IF b \in { "R", "P" }
        THEN IF ~co.ok THEN err
             ELSE [ok |-> TRUE,
                   line |-> [NoLine EXCEPT !.kind = "Offset", !.x = co.x, !.y = co.y],
                   rest |-> co.rest]
        ELSE IF b = "r"
        THEN IF ~ru.ok THEN err
             ELSE [ok |-> TRUE,
                   line |-> [NoLine EXCEPT !.kind = "RuleSet", !.set = ru.set],
                   rest |-> take_ws(ru.rest)]
        ELSE err

\* read_line_header: [ok, some, x, y, set, rest], set an Option: [some, val]
read_line_header(bytes) ==
    LET co == read_coordinates(bytes)
        t  == take_1(co.rest)
        none == [some |-> FALSE, val |-> B3S23]
        e1 == expect_slice(<< "r", "u", "l", "e" >>, take_ws(t.rest))
        e2 == expect("=", take_ws(e1.rest))
        ru == parse_rule(take_ws(e2.rest))
        err == [ok |-> FALSE, some |-> FALSE, x |-> 0, y |-> 0, set |-> none, rest |-> bytes]
    IN  IF ~co.ok THEN [err EXCEPT !.ok = TRUE]
        ELSE IF t.val = ","
        THEN IF ~e1.ok \/ ~e2.ok \/ ~ru.ok THEN err
             ELSE [ok |-> TRUE, some |-> TRUE, x |-> co.x, y |-> co.y,
                   set |-> [some |-> TRUE, val |-> ru.set], rest |-> ru.rest]
        ELSE IF t.val = "\n"
        THEN [ok |-> TRUE, some |-> TRUE, x |-> co.x, y |-> co.y, set |-> none, rest |-> t.rest]
        ELSE err

\* A run whose calls all have the x of its first cell
RunCalls_first(dx, dy, x, y, rep) == [i \in 1 .. rep |-> << dx + x, dy + y >>]

\* The calls f(dx + x + i, dy + y) for i in 0 .. rep - 1, in order
RunCalls(dx, dy, x, y, rep) == [i \in 1 .. rep |-> << dx + x + i - 1, dy + y >>]

NotDigit(b) == ~is_ascii_digit(b)

\* read_encoding: [status, calls], calls the sequence of the arguments of f.
\* status is "panic" where the code reaches an unreachable!()
RECURSIVE read_encoding_loop(_, _, _, _, _, _, _)
read_encoding_loop(bytes, dx, dy, rep, x, y, calls) ==
    LET pk   == peek_1(bytes)
        b    == pk.val
        rest == take_1(bytes).rest
        n    == take_until_fn([c \in Bytes(bytes) |-> NotDigit(c)], bytes)
        c    == convert(n.val, FALSE)
    IN  IF ~pk.some THEN [status |-> "err", calls |-> calls]
        ELSE IF b \in { "\r", "\n" } THEN read_encoding_loop(rest, dx, dy, rep, x, y, calls)
        ELSE IF b = "!" THEN [status |-> "ok", calls |-> calls]
        ELSE IF b = "b" THEN read_encoding_loop(rest, dx, dy, 1, x + rep, y, calls)
        ELSE IF b = "o"
        THEN read_encoding_loop(rest, dx, dy, 1, x + rep, y, calls \o RunCalls(dx, dy, x, y, rep))
        ELSE IF b = "$" THEN read_encoding_loop(rest, dx, dy, 1, 0, y - rep, calls)
        ELSE IF is_ascii_digit(b)
        THEN IF ~n.some THEN [status |-> "panic", calls |-> calls]
             ELSE IF peek_1(n.rest) = [some |-> TRUE, val |-> "\n"]
             THEN [status |-> "panic", calls |-> calls]
             ELSE IF ~c.ok THEN [status |-> "err", calls |-> calls]
             ELSE read_encoding_loop(n.rest, dx, dy, c.val, x, y, calls)
        ELSE [status |-> "err", calls |-> calls]

read_encoding(bytes, dx, dy) == read_encoding_loop(bytes, dx, dy, 1, 0, 0, << >>)

NoText == [some |-> FALSE, val |-> << >>]

NoOffset == [some |-> FALSE, x |-> 0, y |-> 0]

\* RleFile::default()
RleFile_default == [name |-> NoText, author |-> NoText, offset |-> NoOffset, set |-> B3S23]

\* The match of read_rle on a comment line: the file with the field of the
\* line overwritten (a field already there is only warned about)
read_rle_line(file, l) ==
    CASE l.kind = "Name"    -> [file EXCEPT !.name = [some |-> TRUE, val |-> l.text]]
      [] l.kind = "Author"  -> [file EXCEPT !.author = [some |-> TRUE, val |-> l.text]]
      [] l.kind = "Offset"  -> [file EXCEPT !.offset = [some |-> TRUE, x |-> l.x, y |-> l.y]]
      [] l.kind = "RuleSet" -> [file EXCEPT !.set = l.set]
      [] OTHER              -> file

\* The loop of read_rle over the comment lines: [ok, file, rest].
\* read_comments_step is one turn of it, r the result of read_line_comment
RECURSIVE read_comments(_, _), read_comments_step(_, _, _)
read_comments_step(bytes, file, r) ==
    IF ~r.ok THEN [ok |-> FALSE, file |-> file, rest |-> bytes]
    ELSE IF r.line.kind = "None" THEN [ok |-> TRUE, file |-> file, rest |-> bytes]
    ELSE read_comments(r.rest, read_rle_line(file, r.line))

read_comments(bytes, file) == read_comments_step(bytes, file, read_line_comment(bytes))

\* The end of read_rle: the payload is read with the offset of the file
read_rle_encoding(file, e) == [status |-> e.status, file |-> file, calls |-> e.calls]

\* The header line of read_rle, h the result of read_line_header: its x and
\* y become the offset of the file, its rule is dropped
read_rle_header(c, h) ==
    IF ~h.ok THEN [status |-> "err", file |-> c.file, calls |-> << >>]
    ELSE IF h.some
    THEN read_rle_encoding([c.file EXCEPT !.offset = [some |-> TRUE, x |-> h.x, y |-> h.y]],
                           read_encoding(h.rest, h.x, h.y))
    ELSE read_rle_encoding(c.file, read_encoding(c.rest, c.file.offset.x, c.file.offset.y))

\* The comment lines of read_rle, c the result of the loop over them
read_rle_comments(c) ==
    IF ~c.ok THEN [status |-> "err", file |-> c.file, calls |-> << >>]
    ELSE read_rle_header(c, read_line_header(c.rest))

\* read_rle: [status, file, calls]
read_rle(bytes) == read_rle_comments(read_comments(bytes, RleFile_default))

-----------------------------------------------------------------------------
(* SpecRle: RLE files given to read_rle, payloads given to read_encoding *)

\* The comment lines of the files, by kind
CommentKinds == { "N1", "N2", "O1", "C0", "C1c", "R1", "P1", "r1" }

CommentLine(k) ==
    CASE k = "N1" -> << "#", "N", " ", "a", "\n" >>
      [] k = "N2" -> << "#", "N", " ", "b", "\n" >>
      [] k = "O1" -> << "#", "O", " ", "c", "\n" >>
      [] k = "C0" -> << "#", "C", "\n" >>
      [] k = "C1c" -> << "#", "C", " ", "d", "\n" >>
      [] k = "R1" -> << "#", "R", " ", "x", " ", "=", " ", "1", ",", " ", "y", " ", "=", " ", "2", "\n" >>
      [] k = "P1" -> << "#", "P", " ", "x", " ", "=", " ", "0", ",", " ", "y", " ", "=", " ", "1", "\n" >>
      [] k = "r1" -> << "#", "r", " ", "3", "6", "/", "2", "3", "\n" >>

\* The header lines of the files, by kind
HeaderKinds == { "none", "plain", "rule" }

HeaderLine(k) ==
    CASE k = "plain" -> << "x", " ", "=", " ", "3", ",", " ", "y", " ", "=", " ", "2", "\n" >>
      [] k = "rule"  -> << "x", " ", "=", " ", "3", ",", " ", "y", " ", "=", " ", "2", ",", " ", "r", "u", "l", "e", " ", "=", " ", "B", "3", "6", "/", "S", "2", "3", "\n" >>
      [] OTHER       -> << >>

\* The run counts of the tokens: absent, 2, 10
TokenCounts == { << >>, << "2" >>, << "1", "0" >> }

\* The tokens of a payload: a count and a tag, or a line break
Tokens == [count : TokenCounts, tag : { "b", "o", "$" }] \cup { [count |-> << >>, tag |-> "\n"] }

\* The number of tokens of a payload before its end
MaxTokens == 2

\* The number of comment lines of a file
MaxComments == 2

\* The sequences of length n or less over S
SeqsUpTo(S, n) == UNION { [1 .. k -> S] : k \in 0 .. n }

\* How a payload ends: with !, truncated, with a count at the end of input,
\* with a count cut off by a line break, with a live cell after the !
PayloadEnds == { << "!" >>, << >>, << "2" >>, << "2", "\n", "o", "!" >>, << "!", "o" >> }

RECURSIVE RenderTokens(_)
RenderTokens(ts) ==
    IF Len(ts) = 0 THEN << >>
    ELSE Head(ts).count \o << Head(ts).tag >> \o RenderTokens(Tail(ts))

RECURSIVE RenderComments(_)
RenderComments(ks) ==
    IF Len(ks) = 0 THEN << >> ELSE CommentLine(Head(ks)) \o RenderComments(Tail(ks))

RenderPayload(a) == RenderTokens(a.tokens) \o a.end

RenderFile(a) == RenderComments(a.comments) \o HeaderLine(a.header) \o RenderPayload(a)

\* The offsets given to read_encoding
Offsets == { << 0, 0 >>, << 3, -2 >> }

\* Files that vary in their payload, and files that vary in their lines
RleInputs ==
    [comments : { << >> }, header : { "none", "plain" }, tokens : SeqsUpTo(Tokens, MaxTokens),
     end : PayloadEnds, offset : Offsets]
    \cup
    [comments : SeqsUpTo(CommentKinds, MaxComments), header : HeaderKinds,
     tokens : { << [count |-> << >>, tag |-> "o"] >>,
                << [count |-> << "2" >>, tag |-> "o"], [count |-> << >>, tag |-> "$"],
                   [count |-> << >>, tag |-> "o"] >> },
     end : { << "!" >> }, offset : { << 0, 0 >> }]

NoResult == [status |-> "none", file |-> RleFile_default, calls |-> << >>]

InitRle ==
    /\ arg \in RleInputs
    /\ rule = 0
    /\ checks = TRUE
    /\ root = 0 /\ buf = << >> /\ depth = 0
    /\ status = "ok"
    /\ op = "input"
    /\ out = NoResult
    /\ sets = {}
    /\ steps = 0
    /\ cellbuf = NoCellBuf
    /\ cam = NoCamera
    /\ term = NoTerm

\* read_rle(bytes, f), f recording its arguments
ReadRle ==
    /\ op = "input"
    /\ out' = read_rle(RenderFile(arg))
    /\ op' = "read_rle"
    /\ UNCHANGED << rule, root, buf, depth, checks, status, arg, sets, steps, cellbuf, cam, term >>

\* read_encoding(bytes, dx, dy, f) on the payload alone
ReadEncoding ==
    /\ op = "input"
    /\ LET e == read_encoding(RenderPayload(arg), arg.offset[1], arg.offset[2])
       IN  out' = [NoResult EXCEPT !.status = e.status, !.calls = e.calls]
    /\ op' = "read_encoding"
    /\ UNCHANGED << rule, root, buf, depth, checks, status, arg, sets, steps, cellbuf, cam, term >>

NextRle == ReadRle \/ ReadEncoding

SpecRle == InitRle /\ [][NextRle]_vars

\* The count of a token, 1 when absent
TokenCount(t) == IF Len(t.count) = 0 THEN 1 ELSE DigitsValue(t.count)

\* The cells of a payload, token by token, from the running (x, y)
RECURSIVE PayloadCells(_, _, _, _, _)
PayloadCells(ts, x, y, dx, dy) ==
    IF Len(ts) = 0 THEN << >>
    ELSE LET t == Head(ts)
             n == TokenCount(t)
         IN  CASE t.tag = "b" -> PayloadCells(Tail(ts), x + n, y, dx, dy)
               [] t.tag = "o" -> [i \in 1 .. n |-> << dx + x + (i - 1), dy + y >>]
                                    \o PayloadCells(Tail(ts), x + n, y, dx, dy)
               [] t.tag = "$" -> PayloadCells(Tail(ts), 0, y - n, dx, dy)
               [] OTHER       -> PayloadCells(Tail(ts), x, y, dx, dy)

\* C15: the callbacks of a payload are, in order, the cells of its o tokens
\* before the !, from a running (x, y) that starts at (0, 0), b and o adding
\* their count to x and $ resetting x and subtracting its count from y, all
\* translated by the offset; nothing after the ! is called back.
C15_PayloadCallbacks ==
    /\ (op = "read_encoding" /\ arg.end # << >> /\ Head(arg.end) = "!")
          => (/\ out.status = "ok"
              /\ out.calls = PayloadCells(arg.tokens, 0, 0, arg.offset[1], arg.offset[2]))
    /\ (op = "read_rle" /\ out.status = "ok")
          => out.calls = PayloadCells(arg.tokens, 0, 0, out.file.offset.x, out.file.offset.y)

\* The payload 2$10o!o at the offset (3, -2): ten callbacks, the last for (12, -4)
C15_Witness ==
    /\ op = "read_encoding"
    /\ arg.end = << "!", "o" >> /\ arg.offset = << 3, -2 >>
    /\ Len(out.calls) = 10 /\ out.calls[10] = << 12, -4 >>

\* C16: read_rle returns Ok or Err for every input and never panics; a count
\* followed by a line break or by the end of input, and a payload without !,
\* give an Err.
C16_NeverPanics ==
    op \in { "read_rle", "read_encoding" }
       => (/\ out.status # "panic"
           /\ arg.end \in { << >>, << "2" >>, << "2", "\n", "o", "!" >> } => out.status = "err")

\* C17: the file read_rle returns for a header line with rule = B36/S23 has
\* that rule.
C17_HeaderRuleExposed ==
    (op = "read_rle" /\ arg.header = "rule" /\ out.status = "ok")
       => (/\ BirthSet(out.file.set.rule) = { 3, 6 }
           /\ SurvivalSet(out.file.set.rule) = { 2, 3 })

\* Two lines of the comments define the same thing: the name, the author or
\* the offset
Redefined(ks) ==
    \E i \in 1 .. Len(ks), j \in 1 .. Len(ks) :
       /\ i < j
       /\ \/ { ks[i], ks[j] } \subseteq { "N1", "N2" }
          \/ { ks[i], ks[j] } \subseteq { "O1" }
          \/ { ks[i], ks[j] } \subseteq { "R1", "P1" }

\* C18: read_rle returns an error when the name, the author or the offset is
\* defined more than once.
C18_DuplicateRejected ==
    (op = "read_rle" /\ Redefined(arg.comments)) => out.status = "err"

-----------------------------------------------------------------------------
(* Camera (src/src/camera.rs): the cell buffer and the braille frame *)

\* The code point of the blank braille pattern, U+2800
BRAILLE_EMPTY == 10240

\* The code point of '\n'
Newline == 10

\* The frame buffer of the code points cp, from index i on: a line break
\* before every index that is a positive multiple of w, one after the last
RECURSIVE push_frame(_, _, _)
push_frame(cp, w, i) ==
    IF i >= Len(cp) THEN << Newline >>
    ELSE (IF i > 0 /\ i % w = 0 THEN << Newline >> ELSE << >>)
         \o << At(cp, i) >> \o push_frame(cp, w, i + 1)

\* Camera::new(w, h)
Camera_new(w, h) ==
    LET cp == [i \in 1 .. w * h |-> BRAILLE_EMPTY]
    IN  [w |-> w, h |-> h,
         cb |-> [i \in 1 .. (w * 2) * (h * 4) |-> FALSE],
         cp |-> cp,
         fb |-> push_frame(cp, w, 0),
         x |-> 0, y |-> 0, scale |-> 0]

coords_to(n, width) == << n % width, n \div width >>

coords_from(x, y, width) == y * width + x

get_hex_value(x, y) ==
    CASE x % 2 = 0 /\ y % 4 = 0 -> 1
      [] x % 2 = 1 /\ y % 4 = 0 -> 8
      [] x % 2 = 0 /\ y % 4 = 1 -> 2
      [] x % 2 = 1 /\ y % 4 = 1 -> 16
      [] x % 2 = 0 /\ y % 4 = 2 -> 4
      [] x % 2 = 1 /\ y % 4 = 2 -> 32
      [] x % 2 = 0 /\ y % 4 = 3 -> 64
      [] x % 2 = 1 /\ y % 4 = 3 -> 128

\* Camera::draw_pixel(x, y): pixels outside of the cell buffer are dropped
draw_pixel(c, x, y) ==
    LET w == 2 * c.w
        h == 4 * c.h
    IN  IF x < 0 \/ y < 0 \/ x >= w \/ y >= h THEN c
        ELSE [c EXCEPT !.cb[coords_from(x, y, w) + 1] = TRUE]

\* Camera::reset
reset(c) == [c EXCEPT !.cb = [i \in 1 .. Len(c.cb) |-> FALSE]]

\* The loop of render over the cell buffer, from pixel n on. The index of the
\* glyph is computed in ScreenSize (u16): a build that checks overflow panics,
\* another one wraps
RECURSIVE render_cp(_, _, _, _, _)
render_cp(cb, cp, w, n, chk) ==
    IF n >= Len(cb) THEN [status |-> "ok", cp |-> cp]
    ELSE IF ~At(cb, n) THEN render_cp(cb, cp, w, n + 1, chk)
    ELSE LET xy  == coords_to(n, 2 * w)
             x   == xy[1]
             y   == xy[2]
             i   == (y \div 4) * w + (x \div 2)
             hex == get_hex_value(x, y)
         IN  IF i >= U16 /\ chk THEN [status |-> "panic", cp |-> cp]
             ELSE IF i % U16 >= Len(cp) THEN [status |-> "panic", cp |-> cp]
             ELSE render_cp(cb, [cp EXCEPT ![(i % U16) + 1] = @ + hex], w, n + 1, chk)

\* Camera::render: [status, cam], cam.fb the string returned
render(c, chk) ==
    LET r == render_cp(c.cb, [i \in 1 .. Len(c.cp) |-> BRAILLE_EMPTY], c.w, 0, chk)
    IN  [status |-> r.status,
         cam |-> [c EXCEPT !.cp = r.cp,
                           !.fb = IF r.status = "ok" THEN push_frame(r.cp, c.w, 0) ELSE @]]

-----------------------------------------------------------------------------
(* SpecCamera: cameras of every size up to MaxW by MaxH, pixels drawn one at
   a time, frames rendered *)

\* The columns and rows of the cameras
MaxW == 2

MaxH == 2

\* The number of pixels drawn into one camera
MaxPixels == 3

InitCamera ==
    /\ \E w \in 0 .. MaxW, h \in 0 .. MaxH : cam = Camera_new(w, h)
    /\ checks \in BOOLEAN
    /\ rule = 0
    /\ root = 0 /\ buf = << >> /\ depth = 0
    /\ status = "ok"
    /\ op = "new"
    /\ arg = << >>
    /\ out = cam.fb
    /\ sets = {}
    /\ steps = 0
    /\ cellbuf = NoCellBuf
    /\ term = NoTerm

\* camera.draw_pixel(x, y), x and y from one pixel outside of the buffer on
DrawPixel ==
    /\ status = "ok"
    /\ steps < MaxPixels
    /\ \E x \in -1 .. 2 * cam.w, y \in -1 .. 4 * cam.h :
          cam' = draw_pixel(cam, x, y)
    /\ op' = "draw_pixel"
    /\ steps' = steps + 1
    /\ UNCHANGED << rule, root, buf, depth, checks, status, arg, out, sets, cellbuf, term >>

\* camera.reset()
Reset ==
    /\ status = "ok"
    /\ op # "reset"
    /\ cam' = reset(cam)
    /\ op' = "reset"
    /\ UNCHANGED << rule, root, buf, depth, checks, status, arg, out, sets, steps, cellbuf, term >>

\* camera.render()
Render ==
    /\ status = "ok"
    /\ LET r == render(cam, checks)
       IN  /\ cam' = r.cam
           /\ status' = r.status
           /\ out' = IF r.status = "ok" THEN r.cam.fb ELSE out
    /\ op' = "render"
    /\ UNCHANGED << rule, root, buf, depth, checks, arg, sets, steps, cellbuf, term >>

NextCamera == DrawPixel \/ Reset \/ Render

SpecCamera == InitCamera /\ [][NextCamera]_vars

\* The dot value of the pixel (dx, dy) of a 2x4 block, as the braille block
\* of Unicode numbers its dots
DotValue(dx, dy) ==
    CASE dx = 0 /\ dy = 0 -> 1
      [] dx = 0 /\ dy = 1 -> 2
      [] dx = 0 /\ dy = 2 -> 4
      [] dx = 0 /\ dy = 3 -> 64
      [] dx = 1 /\ dy = 0 -> 8
      [] dx = 1 /\ dy = 1 -> 16
      [] dx = 1 /\ dy = 2 -> 32
      [] dx = 1 /\ dy = 3 -> 128

\* The pixel (x, y) of the cell buffer
Lit(c, x, y) == c.cb[y * (2 * c.w) + x + 1]

RECURSIVE SumDots(_, _, _, _)
SumDots(c, i, j, k) ==
    IF k = 8 THEN 0
    ELSE (IF Lit(c, 2 * i + (k % 2), 4 * j + (k \div 2)) THEN DotValue(k % 2, k \div 2) ELSE 0)
         + SumDots(c, i, j, k + 1)

\* The glyph at column i, row j
Glyph(c, i, j) == BRAILLE_EMPTY + SumDots(c, i, j, 0)

\* h lines, each of w glyphs and a line break
Frame(c) ==
    [k \in 1 .. c.h * (c.w + 1) |->
        LET j == (k - 1) \div (c.w + 1)
            i == (k - 1) % (c.w + 1)
        IN  IF i = c.w THEN Newline ELSE Glyph(c, i, j)]

\* C19: a camera of W columns by H rows renders H lines, each of W glyphs
\* followed by a line break, the glyph at column i, row j being U+2800 plus
\* the dot values of the lit pixels of its 2x4 block; render is a function of
\* the cell buffer alone.
C19_RenderFrame == (op = "render" /\ status = "ok") => out = Frame(cam)

\* The same for cameras of one column and one row at least
RenderFrameNonEmpty ==
    (op = "render" /\ status = "ok" /\ cam.w >= 1 /\ cam.h >= 1) => out = Frame(cam)

-----------------------------------------------------------------------------
(* The terminal driver (src/examples/ui.rs): main, one step per call that
   can fail. term.pc is the call main is about to make, term.raw whether the
   terminal is in raw mode, term.code how main returned *)

\* The columns and rows a terminal reports
MaxCols == 1

MaxRows == 2

\* The frames main draws
MaxFrames == 3

\* What handle_event makes of the event read: Some(Event::Exit) for q and
\* Ctrl-C, another Some(_) that leaves the size alone, Some(CamResize), None
Events == { "Exit", "Move", "CamResize", "None" }

\* The number of lines of the frame of a camera of cols by rows: s.lines()
\* of the string render returns
FrameLines(cols, rows) == IF cols * rows = 0 THEN 1 ELSE rows

\* main returns through a ? with the error of the call
ExitErr(t) == [t EXCEPT !.pc = "exited", !.code = "err"]

InitTerm ==
    /\ term = [NoTerm EXCEPT !.pc = "enable_raw_mode"]
    /\ cam = NoCamera
    /\ rule = 0
    /\ checks = TRUE
    /\ root = 0 /\ buf = << >> /\ depth = 0
    /\ status = "ok"
    /\ op = "main"
    /\ arg = << >>
    /\ out = << >>
    /\ sets = {}
    /\ steps = 0
    /\ cellbuf = NoCellBuf

\* terminal::enable_raw_mode()?
EnableRawMode ==
    /\ term.pc = "enable_raw_mode"
    /\ \/ term' = [term EXCEPT !.raw = TRUE, !.pc = "size"]
       \/ term' = ExitErr(term)
    /\ UNCHANGED << rule, root, buf, depth, checks, status, op, arg, out, sets, steps, cellbuf, cam >>

\* terminal::size()?, then Camera::new and setup_world
TerminalSize ==
    /\ term.pc = "size"
    /\ \/ \E c \in 0 .. MaxCols, r \in 0 .. MaxRows :
             term' = [term EXCEPT !.cols = c, !.rows = r, !.pc = "poll"]
       \/ term' = ExitErr(term)
    /\ UNCHANGED << rule, root, buf, depth, checks, status, op, arg, out, sets, steps, cellbuf, cam >>

\* event::poll(FRAMETIME)?: an event is ready, or none is, or the poll fails
EventPoll ==
    /\ term.pc = "poll"
    /\ steps < MaxFrames
    /\ \/ term' = [term EXCEPT !.pc = "read"]
       \/ term' = [term EXCEPT !.event = "None", !.pc = "clear"]
       \/ term' = ExitErr(term)
    /\ UNCHANGED << rule, root, buf, depth, checks, status, op, arg, out, sets, steps, cellbuf, cam >>

\* event::read()? and handle_event(event)?, which never fails
EventRead ==
    /\ term.pc = "read"
    /\ \/ \E e \in Events : term' = [term EXCEPT !.event = e, !.pc = "elapsed"]
       \/ term' = ExitErr(term)
    /\ UNCHANGED << rule, root, buf, depth, checks, status, op, arg, out, sets, steps, cellbuf, cam >>

\* t.elapsed()?, then the match on the event: Exit breaks out of the loop,
\* CamResize resizes the camera, and the frame is drawn and rendered
Elapsed ==
    /\ term.pc = "elapsed"
    /\ \/ /\ term.event = "Exit"
          /\ term' = [term EXCEPT !.pc = "disable_raw_mode"]
       \/ /\ term.event = "CamResize"
          /\ \E c \in 0 .. MaxCols, r \in 0 .. MaxRows :
                term' = [term EXCEPT !.cols = c, !.rows = r, !.pc = "clear"]
       \/ /\ term.event \in { "Move", "None" }
          /\ term' = [term EXCEPT !.pc = "clear"]
       \/ term' = ExitErr(term)
    /\ UNCHANGED << rule, root, buf, depth, checks, status, op, arg, out, sets, steps, cellbuf, cam >>

\* execute!(stdout, Clear(All), MoveTo(0, 0))?
TerminalClear ==
    /\ term.pc = "clear"
    /\ \/ term' = [term EXCEPT !.lines = FrameLines(term.cols, term.rows), !.pc = "print"]
       \/ term' = ExitErr(term)
    /\ UNCHANGED << rule, root, buf, depth, checks, status, op, arg, out, sets, steps, cellbuf, cam >>

\* execute!(stdout, Print(line), MoveToNextLine(1))? for the next line
PrintLine ==
    /\ term.pc = "print"
    /\ term.lines > 0
    /\ \/ term' = [term EXCEPT !.lines = @ - 1]
       \/ term' = ExitErr(term)
    /\ UNCHANGED << rule, root, buf, depth, checks, status, op, arg, out, sets, steps, cellbuf, cam >>

\* thread::sleep(time_left), and the loop starts over
Sleep ==
    /\ term.pc = "print"
    /\ term.lines = 0
    /\ term' = [term EXCEPT !.pc = "poll"]
    /\ steps' = steps + 1
    /\ UNCHANGED << rule, root, buf, depth, checks, status, op, arg, out, sets, cellbuf, cam >>

\* terminal::disable_raw_mode()?, then Ok(())
DisableRawMode ==
    /\ term.pc = "disable_raw_mode"
    /\ \/ term' = [term EXCEPT !.raw = FALSE, !.pc = "exited", !.code = "ok"]
       \/ term' = ExitErr(term)
    /\ UNCHANGED << rule, root, buf, depth, checks, status, op, arg, out, sets, steps, cellbuf, cam >>

NextTerm ==
    \/ EnableRawMode
    \/ TerminalSize
    \/ EventPoll
    \/ EventRead
    \/ Elapsed
    \/ TerminalClear
    \/ PrintLine
    \/ Sleep
    \/ DisableRawMode

SpecTerm == InitTerm /\ [][NextTerm]_vars

\* C20: once raw mode has been enabled, it is disabled before main exits, on
\* the clean quit and on every error of terminal size, event poll, event
\* read and terminal write.
C20_RawModeRestored == term.pc = "exited" => ~term.raw

\* The clean quit does leave raw mode
CleanQuitRestores == (term.pc = "exited" /\ term.code = "ok") => ~term.raw

-----------------------------------------------------------------------------
(* quadtree/util.rs: partition_in_place.  The predicate is x < t *)

predicate(t, x) == x < t

\* list.swap(lo, hi), indices from 0
swap(list, lo, hi) ==
    [list EXCEPT ![lo + 1] = At(list, hi), ![hi + 1] = At(list, lo)]

\* The while loop of partition_in_place: [list, lo]
RECURSIVE partition_loop(_, _, _, _)
partition_loop(list, t, lo, hi) ==
    IF ~(lo < hi) THEN [list |-> list, lo |-> lo]
    ELSE IF predicate(t, At(list, lo)) THEN partition_loop(list, t, lo + 1, hi)
    ELSE IF ~predicate(t, At(list, hi)) THEN partition_loop(list, t, lo, hi - 1)
    ELSE partition_loop(swap(list, lo, hi), t, lo + 1, hi - 1)

\* The value returned after the loop, without the test of list[lo]
partition_end_lo(t, r) == r.lo

\* The value returned after the loop: lo + 1 when list[lo] satisfies the
\* predicate, lo when it does not
partition_end(t, r) == IF predicate(t, At(r.list, r.lo)) THEN r.lo + 1 ELSE r.lo

\* partition_in_place: [list, i], list the slice after the call
partition_in_place(list, t) ==
    IF Len(list) = 0 THEN [list |-> list, i |-> 0]
    ELSE LET r == partition_loop(list, t, 0, Len(list) - 1)
         IN  [list |-> r.list, i |-> partition_end(t, r)]

-----------------------------------------------------------------------------
(* SpecPartition: every list of up to MaxListLen elements of 0 .. MaxElem,
   every predicate x < t *)

MaxListLen == 4

MaxElem == 3

InitPartition ==
    /\ \E n \in 0 .. MaxListLen, t \in 0 .. MaxElem + 1 :
          \E l \in [1 .. n -> 0 .. MaxElem] : arg = [list |-> l, t |-> t]
    /\ out = [list |-> << >>, i |-> 0]
    /\ op = "input"
    /\ rule = 0
    /\ checks = TRUE
    /\ root = 0 /\ buf = << >> /\ depth = 0
    /\ status = "ok"
    /\ sets = {}
    /\ steps = 0
    /\ cellbuf = NoCellBuf
    /\ cam = NoCamera
    /\ term = NoTerm

\* partition_in_place(&mut list, |x| *x < t)
PartitionInPlace ==
    /\ op = "input"
    /\ out' = partition_in_place(arg.list, arg.t)
    /\ op' = "partition_in_place"
    /\ UNCHANGED << rule, root, buf, depth, checks, status, arg, sets, steps, cellbuf, cam, term >>

NextPartition == PartitionInPlace

SpecPartition == InitPartition /\ [][NextPartition]_vars

\* How many times v occurs in the list
Occurrences(list, v) == Cardinality({ k \in DOMAIN list : list[k] = v })

\* C21: partition_in_place leaves the list a permutation of what it was and
\* returns an index i with every element before i satisfying the predicate
\* and every element from i on not satisfying it; i is 0 for the empty list
\* and the length of the list when every element satisfies the predicate.
C21_Partitioned ==
    op = "partition_in_place" =>
        /\ Len(out.list) = Len(arg.list)
        /\ \A v \in 0 .. MaxElem : Occurrences(out.list, v) = Occurrences(arg.list, v)
        /\ out.i \in 0 .. Len(arg.list)
        /\ \A k \in 1 .. Len(out.list) : (k <= out.i) <=> (out.list[k] < arg.t)
        /\ (Len(arg.list) = 0 => out.i = 0)
        /\ ((\A k \in 1 .. Len(arg.list) : arg.list[k] < arg.t) => out.i = Len(arg.list))

\* A list that needed swaps, with elements on both sides of the index
C21_Witness ==
    /\ op = "partition_in_place"
    /\ arg.list = << 3, 0, 2, 1 >> /\ arg.t = 2
    /\ out.list # arg.list
    /\ out.i = 2

-----------------------------------------------------------------------------
(* Claims about set_bit, under SpecSet *)

\* C22: set(x, y) changes the state of no cell other than (x, y), a leaf or
\* subtree shared by several parents included, and no entry of the buffer is
\* mutated at its index: the nodes on the path are re-interned.
C22_SetTouchesOneCell ==
    [][(op' = "set_bit" /\ status' = "ok" /\ arg' \in InSpan)
          => /\ LiveXY' \ { arg' } = LiveXY \ { arg' }
             /\ \A i \in 1 .. Len(buf) : buf'[i] = buf[i]]_vars

\* The child of the root that set_bit(x, y) descends into
RootChild(x, y) ==
    LET cell == At(buf, root)
    IN  IF x < 0 THEN (IF y < 0 THEN cell.sw ELSE cell.nw)
        ELSE (IF y < 0 THEN cell.se ELSE cell.ne)

\* C23: when set(x, y) descends into an interior child that is the void
\* index, it replaces the child with an empty node of the right level and
\* goes on, so the call completes with the cell (x, y) live.
C23_SetThroughVoid ==
    [][(op' = "set_bit" /\ status = "ok" /\ depth >= 1 /\ arg' \in InSpan
        /\ RootChild(arg'[1], arg'[2]) = 0)
          => (status' = "ok" /\ arg' \in LiveXY')]_vars

-----------------------------------------------------------------------------
(* Claims about the leaf after its result, under SpecLeaf *)

\* C24: computing the result of a leaf leaves the leaf as it was: its NW
\* field has the tag bit set and the bitmap it had, its NE, SW and SE fields
\* are unchanged.
C24_LeafKeptByResult ==
    op = "compute_leaf_res" =>
        /\ is_leaf(At(buf, root))
        /\ ClearMask(At(buf, root).nw) = ClearMask(arg.nw)
        /\ At(buf, root).ne = arg.ne
        /\ At(buf, root).sw = arg.sw
        /\ At(buf, root).se = arg.se

\* What the code leaves: NW is zero, the other fields are kept
LeafResultClearsNW ==
    op = "compute_leaf_res" =>
        At(buf, root) = [arg EXCEPT !.nw = 0]

-----------------------------------------------------------------------------
(* Claims about the rehash and the probe, under SpecBuf *)

\* The tree reachable from index i of the table b, unfolded k levels: a leaf
\* is its cell, a node the trees of its four children
RECURSIVE TreeOf(_, _, _)
TreeOf(b, i, k) ==
    IF i >= Len(b) THEN << "outside" >>
    ELSE IF is_leaf(At(b, i)) \/ k = 0 THEN << "cell", At(b, i) >>
    ELSE << "node", TreeOf(b, At(b, i).nw, k - 1), TreeOf(b, At(b, i).ne, k - 1),
            TreeOf(b, At(b, i).sw, k - 1), TreeOf(b, At(b, i).se, k - 1) >>

\* The insert about to run rehashes: more than 0.8 of the slots are taken
Rehashes == 5 * cellbuf.size > 4 * Len(cellbuf.buf)

\* C25: after a rehash the table in use is the new, larger one, and the tree
\* reachable from the rewritten root is the tree that was reachable from the
\* root before.
C25_RehashKeepsTree ==
    [][(op' = "insert" /\ status' = "ok" /\ Rehashes)
          => /\ Len(cellbuf'.buf) > Len(cellbuf.buf)
             /\ TreeOf(cellbuf'.buf, cellbuf'.root, 2) = TreeOf(cellbuf.buf, cellbuf.root, 2)]_vars

\* What the code does: the table keeps its length through a rehash
RehashKeepsTable ==
    [][op' = "insert" => Len(cellbuf'.buf) = Len(cellbuf.buf)]_vars

\* C26: every insert terminates and returns the index of a slot that was
\* free before the call; rehashing keeps the occupied fraction at or below
\* 0.8, and the probe sequence always reaches a free slot.
C26_InsertTerminates ==
    [][op' = "insert"
          => /\ status' = "ok"
             /\ out' < Len(cellbuf.buf) /\ At(cellbuf.buf, out') = unset
             /\ 5 * (Cardinality(Occupied') - 1) <= 4 * Len(cellbuf'.buf)]_vars

-----------------------------------------------------------------------------
(* SpecPrime: next_prime of src/src/main.rs and World::next_prime of
   src/src/world.rs, the same code, on every n from 3 to MaxN *)

MaxN == 60

InitPrime ==
    /\ arg \in 3 .. MaxN
    /\ out = 0
    /\ op = "input"
    /\ rule = 0
    /\ checks = TRUE
    /\ root = 0 /\ buf = << >> /\ depth = 0
    /\ status = "ok"
    /\ sets = {}
    /\ steps = 0
    /\ cellbuf = NoCellBuf
    /\ cam = NoCamera
    /\ term = NoTerm

\* next_prime(n)
NextPrime ==
    /\ op = "input"
    /\ out' = next_prime(arg)
    /\ op' = "next_prime"
    /\ UNCHANGED << rule, root, buf, depth, checks, status, arg, sets, steps, cellbuf, cam, term >>

\* World::next_prime(n)
WorldNextPrime ==
    /\ op = "input"
    /\ out' = next_prime(arg)
    /\ op' = "World::next_prime"
    /\ UNCHANGED << rule, root, buf, depth, checks, status, arg, sets, steps, cellbuf, cam, term >>

NextPrimes == NextPrime \/ WorldNextPrime

SpecPrime == InitPrime /\ [][NextPrimes]_vars

IsPrime(n) == n >= 2 /\ \A d \in 2 .. n - 1 : n % d # 0

\* C27: next_prime(n) is the smallest prime >= n for every n >= 3, so the
\* size of the table is a prime number, at first and after each rehash.
C27_NextPrimeIsPrime ==
    op \in { "next_prime", "World::next_prime" } =>
        /\ IsPrime(out)
        /\ out >= arg
        /\ \A m \in arg .. out - 1 : ~IsPrime(m)

\* What the code returns: n made odd
NextPrimeIsNextOdd ==
    op \in { "next_prime", "World::next_prime" } =>
        out = IF arg % 2 = 0 THEN arg + 1 ELSE arg

-----------------------------------------------------------------------------
(* Claims about the root of a world, under SpecWorld *)

\* C28: in every state reached from World::new by grow and next calls, root
\* is the index of the last element of buf, so the buf.pop() at the start of
\* grow and of next removes the root node.
C28_RootIsLast == status = "ok" => root = Len(buf) - 1

\* A world that was grown or stepped, then stepped: next popped the root,
\* pushed the result and grew it
C28_Witness ==
    /\ op = "next" /\ steps = 2 /\ status = "ok"
    /\ Len(buf) > 5 /\ root = Len(buf) - 1

-----------------------------------------------------------------------------
(* Claims about the #C lines of an RLE file, under SpecRle *)

\* The file without its #C lines
WithoutComments(a) ==
    [a EXCEPT !.comments = SelectSeq(a.comments, LAMBDA k : k \notin { "C0", "C1c" })]

\* C29: read_rle skips every #C line whatever its text, the empty text
\* included, and goes on with the lines and the payload that follow: the
\* cells emitted and the metadata returned are those of the file without
\* the line.
C29_CommentSkipped ==
    op = "read_rle" => out = read_rle(RenderFile(WithoutComments(arg)))

\* The same for the files whose #C lines have a text
CommentWithTextSkipped ==
    (op = "read_rle" /\ \A i \in DOMAIN arg.comments : arg.comments[i] # "C0")
        => out = read_rle(RenderFile(WithoutComments(arg)))


-----------------------------------------------------------------------------
(* The renderer: the moves and zooms of the camera, and draw_rule, draw_leaf *)
(* and draw_cell of src/src/camera.rs, which draw a world into the cell      *)
(* buffer of a camera.  Each takes the camera and returns it drawn into.     *)

\* Camera::move_left, move_right, move_up, move_down: one pixel, 2^scale cells
move_left(c) == [c EXCEPT !.x = @ + Pow2(c.scale)]

move_right(c) == [c EXCEPT !.x = @ - Pow2(c.scale)]

move_up(c) == [c EXCEPT !.y = @ + Pow2(c.scale)]

move_down(c) == [c EXCEPT !.y = @ - Pow2(c.scale)]

\* Camera::zoom_in: scale.saturating_sub(1)
zoom_in(c) == [c EXCEPT !.scale = IF @ = 0 THEN 0 ELSE @ - 1]

\* Camera::zoom_out
zoom_out(c) == [c EXCEPT !.scale = @ + 1]

\* Camera::rect_set(x, y, s, v): the part of the square inside of the buffer
rect_set(c, x, y, s, v) ==
    LET w == 2 * c.w
        h == 4 * c.h
    IN  IF x + s < 0 \/ y + s < 0 \/ x >= w \/ y >= h THEN c
        ELSE [c EXCEPT !.cb = [i \in 1 .. Len(c.cb) |->
                 LET p == coords_to(i - 1, w)
                 IN  IF /\ p[1] >= x /\ p[1] < x + s
                        /\ p[2] >= y /\ p[2] < y + s
                     THEN v ELSE c.cb[i]]]

\* Camera::draw_clear_square
draw_clear_square(c, x, y, s) == rect_set(c, x, y, s, FALSE)

\* draw_pixel on each pixel of a set: those outside of the buffer are dropped
draw_pixels(c, S) ==
    [c EXCEPT !.cb = [i \in 1 .. Len(c.cb) |-> c.cb[i] \/ coords_to(i - 1, 2 * c.w) \in S]]

\* The loop of draw_rule at scale 0: the mask runs from bit 15 down, x through
\* 0 .. 3 and y grows each time x returns to 0, so that the i-th bit from the
\* top is the pixel (dx + i % 4, dy + i / 4)
cam_draw_rule_loop(c, r, dx, dy) ==
    draw_pixels(c, { << dx + (i % 4), dy + (i \div 4) >> :
                        i \in { j \in 0 .. 15 : And(r, Pow2(15 - j)) = Pow2(15 - j) } })

\* One pixel of draw_rule at a scale above 0: drawn when some bit of r under
\* the mask is set
cam_draw_if(c, r, mask, x, y) == IF And(r, mask) # 0 THEN draw_pixel(c, x, y) ELSE c

\* draw_rule(cam, rule, dx, dy, scale) of camera.rs
cam_draw_rule(c, r, dx, dy, scale) ==
    CASE scale = 0 -> cam_draw_rule_loop(c, r, dx, dy)
      [] scale = 1 ->
            cam_draw_if(cam_draw_if(cam_draw_if(cam_draw_if(c,
                r, 51 * 1024, dx, dy),
                r, 51 * 256, dx + 1, dy),
                r, 51 * 4, dx, dy + 1),
                r, 51, dx + 1, dy + 1)
      [] scale = 2 -> cam_draw_if(c, r, U16 - 1, dx, dy)
      [] OTHER -> c

\* draw_leaf(cam, cell, dx, dy, scale) of camera.rs, the cell being a leaf: at
\* the scales 0 .. 2 the four rules, each 4 >> scale pixels wide
cam_draw_leaf(c, cell, dx, dy, scale) ==
    IF scale <= 2
    THEN LET q == Pow2(2 - scale)
         IN  cam_draw_rule(cam_draw_rule(cam_draw_rule(cam_draw_rule(c,
                 AsU16(ClearMask(cell.nw)), dx, dy, scale),
                 AsU16(cell.ne), dx + q, dy, scale),
                 AsU16(cell.sw), dx, dy + q, scale),
                 AsU16(cell.se), dx + q, dy + q, scale)
    ELSE IF scale = 3 /\ ~is_void(cell) THEN draw_pixel(c, dx, dy)
    ELSE c

\* draw_cell(cam, buf, cell, dx, dy, n, scale) of camera.rs: returns
\* [status, cam]; the assertion of draw_leaf fails on a cell of level 3 that
\* is no leaf.  The children are drawn in the order and at the places of the
\* code
RECURSIVE cam_draw_cell(_, _, _, _, _, _, _)
cam_draw_cell(r, cells, cell, dx, dy, n, scale) ==
    IF r.status # "ok" \/ scale > n THEN r
    ELSE IF is_void(cell)
    THEN [r EXCEPT !.cam = draw_clear_square(r.cam, dx, dy, Pow2(n - scale))]
    ELSE IF Pow2(n - scale) = 1
    THEN [r EXCEPT !.cam = draw_pixel(r.cam, dx, dy)]
    ELSE IF n = 3
    THEN IF is_leaf(cell)
         THEN [r EXCEPT !.cam = cam_draw_leaf(r.cam, cell, dx, dy, scale)]
         ELSE [r EXCEPT !.status = "panic"]
    ELSE cam_draw_cell(
             cam_draw_cell(
                 cam_draw_cell(
                     cam_draw_cell(r, cells, At(cells, cell.ne), dx, dy, n - 1, scale),
                     cells, At(cells, cell.nw), dx + Pow2(n - scale - 1), dy, n - 1, scale),
                 cells, At(cells, cell.se), dx, dy + Pow2(n - scale - 1), n - 1, scale),
             cells, At(cells, cell.sw),
             dx + Pow2(n - scale - 1), dy + Pow2(n - scale - 1), n - 1, scale)

\* Camera::draw(world): the root at the pixel (x >> scale, y >> scale)
Camera_draw(c, w) ==
    cam_draw_cell([status |-> "ok", cam |-> c], w.buf, At(w.buf, w.root),
                  c.x \div Pow2(c.scale), c.y \div Pow2(c.scale), w.depth + 3, c.scale)

-----------------------------------------------------------------------------
(* SpecDraw: the loop of examples/ui.rs on a world built beforehand: each    *)
(* turn handles one event, a move or a zoom of the camera, then resets the   *)
(* cell buffer and draws the world.                                          *)

\* The columns and rows of the terminal: 16 x 16 pixels, a node of level 4
DrawCols == 8

DrawRows == 4

\* The farthest the camera moves from the origin, in cells
MaxMove == 2

\* The largest scale the camera zooms out to
MaxScale == 1

DrawWorlds ==
    { setup_world(l, d) : l \in SetLeaves, d \in 0 .. 1 }
    \cup { World_new(1) }
    \cup { LET r == build_cell(q[1], q[2], q[3], q[4], World_new(0).buf)
           IN  [root |-> r.res, buf |-> r.cells, depth |-> 1, status |-> "ok"] :
           q \in SetLeaves \X SetLeaves \X SetLeaves \X SetLeaves }

InitDraw ==
    /\ rule = from_str(LIFE_RULES).rule
    /\ checks = TRUE
    /\ \E w \in DrawWorlds :
          root = w.root /\ buf = w.buf /\ depth = w.depth /\ status = w.status
    /\ cam = Camera_new(DrawCols, DrawRows)
    /\ op = "new"
    /\ arg = << >>
    /\ out = 0
    /\ sets = {}
    /\ steps = 0
    /\ cellbuf = NoCellBuf
    /\ term = NoTerm

InView(c) == c.x \in -MaxMove .. MaxMove /\ c.y \in -MaxMove .. MaxMove

\* The end of each turn of the loop: cam.reset(); cam.draw(&world)
DrawFrame(c) ==
    LET r == Camera_draw(reset(c), World)
    IN  cam' = r.cam /\ status' = r.status

\* Event::MoveLeft, then the frame
MoveLeft ==
    /\ status = "ok" /\ InView(move_left(cam))
    /\ DrawFrame(move_left(cam))
    /\ op' = "draw"
    /\ UNCHANGED << rule, root, buf, depth, checks, arg, out, sets, steps, cellbuf, term >>

\* Event::MoveRight, then the frame
MoveRight ==
    /\ status = "ok" /\ InView(move_right(cam))
    /\ DrawFrame(move_right(cam))
    /\ op' = "draw"
    /\ UNCHANGED << rule, root, buf, depth, checks, arg, out, sets, steps, cellbuf, term >>

\* Event::MoveUp, then the frame
MoveUp ==
    /\ status = "ok" /\ InView(move_up(cam))
    /\ DrawFrame(move_up(cam))
    /\ op' = "draw"
    /\ UNCHANGED << rule, root, buf, depth, checks, arg, out, sets, steps, cellbuf, term >>

\* Event::MoveDown, then the frame
MoveDown ==
    /\ status = "ok" /\ InView(move_down(cam))
    /\ DrawFrame(move_down(cam))
    /\ op' = "draw"
    /\ UNCHANGED << rule, root, buf, depth, checks, arg, out, sets, steps, cellbuf, term >>

\* Event::ZoomIn, then the frame
ZoomIn ==
    /\ status = "ok" /\ cam.scale > 0
    /\ DrawFrame(zoom_in(cam))
    /\ op' = "draw"
    /\ UNCHANGED << rule, root, buf, depth, checks, arg, out, sets, steps, cellbuf, term >>

\* Event::ZoomOut, then the frame
ZoomOut ==
    /\ status = "ok" /\ cam.scale < MaxScale
    /\ DrawFrame(zoom_out(cam))
    /\ op' = "draw"
    /\ UNCHANGED << rule, root, buf, depth, checks, arg, out, sets, steps, cellbuf, term >>

\* No event within the frame time: the frame alone
Tick ==
    /\ status = "ok" /\ op = "new"
    /\ DrawFrame(cam)
    /\ op' = "draw"
    /\ UNCHANGED << rule, root, buf, depth, checks, arg, out, sets, steps, cellbuf, term >>

NextDraw == MoveLeft \/ MoveRight \/ MoveUp \/ MoveDown \/ ZoomIn \/ ZoomOut \/ Tick

SpecDraw == InitDraw /\ [][NextDraw]_vars

-----------------------------------------------------------------------------
(* Claims about the renderer, under SpecDraw                                 *)

\* The pixels of the cell buffer of a camera
Pixels(c) == (0 .. 2 * c.w - 1) \X (0 .. 4 * c.h - 1)

\* C30: after a frame at scale 0 the lit pixels are those of the live cells
\* of the world, the root's top-left corner at the pixel (dx, dy) = (cam.x,
\* cam.y): at every level the NW child in the top-left, the NE child in the
\* top-right, the SW child in the bottom-left and the SE child in the
\* bottom-right quarter, as the rules lie in a leaf, so that the live cell at
\* column c, row r lights the pixel (dx + c, dy + r)
C30_QuadrantsInPlace ==
    (op = "draw" /\ status = "ok" /\ cam.scale = 0) =>
        { p \in Pixels(cam) : Lit(cam, p[1], p[2]) }
            = Pixels(cam) \cap draw_cell(At(buf, root), buf, depth, cam.x, cam.y)

\* The node with east and west exchanged at the root
Exchanged(c) == [c EXCEPT !.nw = c.ne, !.ne = c.nw, !.sw = c.se, !.se = c.sw]

\* What the frame shows instead: in a world of level 3 or 4 the root's east
\* and west children stand in each other's place
FrameExchangesEastWest ==
    (op = "draw" /\ status = "ok" /\ cam.scale = 0) =>
        { p \in Pixels(cam) : Lit(cam, p[1], p[2]) }
            = Pixels(cam) \cap draw_cell(IF depth = 0 THEN At(buf, root)
                                                       ELSE Exchanged(At(buf, root)),
                                         buf, depth, cam.x, cam.y)

=============================================================================
